---- MODULE Spec2Model ----
(***************************************************************************)
(* Verification model of dd-tf's resource-fetch pipeline:                  *)
(*   - the rate-limited HTTP client (internal/utils/httpclient.go);        *)
(*   - the download orchestrators (commands/{dashboards,monitors}          *)
(*     runDownload) together with the target enumerators they consume.     *)
(*                                                                         *)
(* Time is counted in units of 500ms (the base backoff), so that every     *)
(* duration the client uses is a whole number of units.                    *)
(***************************************************************************)
EXTENDS Integers, Sequences, FiniteSets, TLC

(***************************************************************************)
(* Bounds of the model.                                                    *)
(***************************************************************************)
NumCallers == 3        \* goroutines that may call Get on the shared client
CfgMaxConcurrent == 2  \* maxConcurrent handed to newClient
CfgRetries == 1        \* retries handed to newClient when callers run concurrently
CallRetries == 2       \* retries handed to newClient when a single call is followed
MaxTime == 4           \* the clock stops here when callers run concurrently
CallMaxTime == 8       \* the clock stops here when a single call is followed
MaxIDs == 3            \* longest mixed --id list handed to a download command
MaxPageSize == 3       \* largest page size a PaginationParams is built with
MaxCursor == 6         \* NextOffsetPage / NextPage are called while the cursor is below
MaxRemote == 3         \* most items a remote listing holds
MaxListPageSize == 2   \* largest settings.PageSize an enumerator lists with
MaxBadIDs == 9         \* longest --id list made of malformed identifiers only
MaxAttempt == 8        \* largest attempt backoffDuration is called with on its own
MaxArg == 2            \* largest concurrency cap and retry budget newClient is called with
MaxTags == 2           \* most tags a resource holds when the matchers are called
MaxFilterTags == 2     \* most filter tags the matchers are called with

(***************************************************************************)
(* Program constants.                                                      *)
(***************************************************************************)
defaultMaxConcurrency == 8
defaultRetries == 3
defaultHTTPTimeout == 120    \* 60 * time.Second
Second == 2                  \* time.Second
BackoffBase == 1             \* 500 * time.Millisecond
BackoffCap == 10             \* 5 * time.Second
StatusOK == 200
StatusNotFound == 404
StatusTooManyRequests == 429
StatusInternalServerError == 500
errorChannelBuffer == 8

Callers == 1..NumCallers
Unlocked == 0               \* the zero sync.Mutex is unlocked

(***************************************************************************)
(* newClient: non-positive arguments are replaced by the defaults.         *)
(***************************************************************************)
\* A constructor that keeps whatever it is given.
newClientAsGiven(maxConcurrent, retries, timeout) ==
  [ semCap |-> maxConcurrent, retries |-> retries, timeout |-> timeout ]

newClient(maxConcurrent, retries, timeout) ==
  [ semCap  |-> IF maxConcurrent <= 0 THEN defaultMaxConcurrency ELSE maxConcurrent,
    retries |-> IF retries <= 0 THEN defaultRetries ELSE retries,
    timeout |-> IF timeout <= 0 THEN defaultHTTPTimeout ELSE timeout ]

(***************************************************************************)
(* backoffDuration: 500ms doubled `attempt` times, capped at 5s.           *)
(***************************************************************************)
RECURSIVE BackoffLoop(_, _, _)
BackoffLoop(d, i, attempt) ==
  IF i < attempt
  THEN IF d * 2 > BackoffCap THEN BackoffCap
       ELSE BackoffLoop(d * 2, i + 1, attempt)
  ELSE d

\* A backoff without the cap.
backoffDurationUncapped(attempt) == BackoffBase * 2^attempt

\* A backoff that never doubles.
backoffDurationFlat(attempt) == BackoffBase

backoffDuration(attempt) == BackoffLoop(BackoffBase, 0, attempt)

(***************************************************************************)
(* strconv.Atoi on a header value, a sequence of one-character strings:    *)
(* an optional sign followed by at least one decimal digit.                *)
(***************************************************************************)
Digits == {"0", "1", "2", "3", "4", "5", "6", "7", "8", "9"}

DigitVal(c) ==
  CASE c = "0" -> 0 [] c = "1" -> 1 [] c = "2" -> 2 [] c = "3" -> 3
    [] c = "4" -> 4 [] c = "5" -> 5 [] c = "6" -> 6 [] c = "7" -> 7
    [] c = "8" -> 8 [] c = "9" -> 9

RECURSIVE DigitsVal(_, _)
DigitsVal(s, acc) ==
  IF s = <<>> THEN acc ELSE DigitsVal(Tail(s), acc * 10 + DigitVal(Head(s)))

Atoi(s) ==
  LET signed == s /= <<>> /\ Head(s) \in {"-", "+"}
      body   == IF signed THEN Tail(s) ELSE s
      ok     == body /= <<>> /\ \A i \in 1..Len(body) : body[i] \in Digits
  IN  [ ok  |-> ok,
        val |-> IF ~ok THEN 0
                ELSE IF signed /\ Head(s) = "-" THEN 0 - DigitsVal(body, 0)
                ELSE DigitsVal(body, 0) ]

(***************************************************************************)
(* parseRetryAfter: whole seconds of the Retry-After header; one second    *)
(* when the header is absent (empty), unparsable or negative.              *)
(***************************************************************************)
parseRetryAfter(resp) ==
  IF resp.retryAfter /= <<>>
  THEN LET a == Atoi(resp.retryAfter)
       IN  IF a.ok /\ a.val >= 0 THEN a.val * Second ELSE Second
  ELSE Second

(***************************************************************************)
(* What one round trip of UnderlyingHTTP.Do can produce.                   *)
(***************************************************************************)
RetryAfterValues == { <<>>, <<"0">>, <<"1">>, <<"2">>, <<"x">>, <<"-", "1">> }

TransportError == [ failed |-> TRUE, status |-> 0, retryAfter |-> <<>> ]

HTTPResponse(status, ra) == [ failed |-> FALSE, status |-> status, retryAfter |-> ra ]

Outcomes ==
  { TransportError }
    \cup { HTTPResponse(StatusTooManyRequests, ra) : ra \in RetryAfterValues }
    \cup { HTTPResponse(s, <<>>) : s \in { StatusOK, StatusNotFound, StatusInternalServerError } }

\* The behaviours of the remote server explored for a single call: a server
\* that always answers the same way, one that may answer anything, and one
\* that fails with 500 some times and succeeds at others.
CallBehaviours ==
  { {o} : o \in Outcomes }
    \cup { Outcomes }
    \cup { { HTTPResponse(StatusInternalServerError, <<>>), HTTPResponse(StatusOK, <<>>) } }

\* The behaviours explored with concurrent callers: rate limits of different
\* lengths mixed with successes, and failures mixed with a client error.
ConcurrentBehaviours ==
  { { HTTPResponse(StatusTooManyRequests, <<"0">>),
      HTTPResponse(StatusTooManyRequests, <<"2">>),
      HTTPResponse(StatusOK, <<>>) },
    { TransportError, HTTPResponse(StatusInternalServerError, <<>>),
      HTTPResponse(StatusNotFound, <<>>) } }

NoResult == [ resp |-> 0, err |-> "none", after |-> 0 ]

\* The locals of a GetWithContext call before it starts and after it returned.
NoLocals ==
  [ urlOK |-> TRUE, attempt |-> 0, wait |-> 0, asked |-> 0, proposed |-> 0, wake |-> 0 ]

VARIABLES
  client,      \* the shared DatadogHTTPClient: capacity of sem, retries, timeout
  server,      \* the outcomes the remote server may produce in this run
  horizon,     \* the instant at which the clock of this run stops
  cancelled,   \* ctx.Done() of the context handed to GetWithContext is closed
  now,         \* the wall clock
  sem,         \* number of slots held in c.sem
  pauseMu,     \* holder of c.pause (Unlocked when free)
  pauseUntil,  \* c.pauseUntil (0 is the zero time)
  pc,          \* position of each caller in GetWithContext
  urls,        \* the urls callers may pass: TRUE when NewRequestWithContext
               \* accepts the url, FALSE when it rejects it
  loc,         \* the locals of each call: urlOK (the url is accepted), attempt,
               \* wait (parsed from the last 429), proposed (setPause), wake
               \* (end of the current time.Sleep)
  result,      \* what the call returned
  nAttempts,   \* network attempts (UnderlyingHTTP.Do calls) made by the call
  maxProposed, \* the latest pause-until value setPause has proposed so far
  maxAsked     \* the latest now + wait any 429 has asked for so far

clientVars == << client, server, urls, horizon, cancelled, now, sem, pauseMu,
                 pauseUntil, pc, loc,
                 result, nAttempts, maxProposed, maxAsked >>

(***************************************************************************)
(* Identifiers.  A string is a sequence of one-character strings.          *)
(***************************************************************************)
AlphaNum == { "a", "b", "c", "x", "A", "B", "C" } \cup Digits

Lower(c) == CASE c = "A" -> "a" [] c = "B" -> "b" [] c = "C" -> "c" [] OTHER -> c

ToLower(s) == [i \in 1..Len(s) |-> Lower(s[i])]

RECURSIVE TrimLeft(_)
TrimLeft(s) == IF s /= <<>> /\ Head(s) = " " THEN TrimLeft(Tail(s)) ELSE s

RECURSIVE TrimRight(_)
TrimRight(s) ==
  IF s /= <<>> /\ s[Len(s)] = " " THEN TrimRight(SubSeq(s, 1, Len(s) - 1)) ELSE s

TrimSpace(s) == TrimRight(TrimLeft(s))

\* dashboardIDRegex, ^(?i)[a-z0-9]+-[a-z0-9]+-[a-z0-9]+$ : three non-empty
\* alphanumeric segments separated by two dashes.  segs counts the segments
\* already closed, cur the characters of the segment being read.
RECURSIVE RegexScan(_, _, _)
RegexScan(s, segs, cur) ==
  IF s = <<>> THEN cur > 0 /\ segs = 2
  ELSE IF Head(s) = "-" THEN cur > 0 /\ RegexScan(Tail(s), segs + 1, 0)
  ELSE Head(s) \in AlphaNum /\ RegexScan(Tail(s), segs, cur + 1)

dashboardIDRegex(s) == RegexScan(s, 0, 0)

\* A normalizezDashboardID that hands a well-formed identifier back as typed.
normalizezDashboardIDAsIs(id) ==
  IF id = <<>> THEN [err |-> TRUE, id |-> <<>>]
  ELSE IF ~dashboardIDRegex(id) THEN [err |-> TRUE, id |-> <<>>]
  ELSE [err |-> FALSE, id |-> id]

\* normalizezDashboardID: reject the empty and the malformed identifier,
\* lowercase the others.
normalizezDashboardID(id) ==
  IF id = <<>> THEN [err |-> TRUE, id |-> <<>>]
  ELSE IF ~dashboardIDRegex(id) THEN [err |-> TRUE, id |-> <<>>]
  ELSE [err |-> FALSE, id |-> ToLower(id)]

\* ParseCommaSeparatedIDs on the parts strings.Split(s, ",") yields: trim,
\* drop the empty parts and the parts already seen.
RECURSIVE ParseLoop(_, _)
ParseLoop(parts, ids) ==
  IF parts = <<>> THEN ids
  ELSE LET id == TrimSpace(Head(parts))
       IN  IF id = <<>> \/ \E i \in 1..Len(ids) : ids[i] = id
           THEN ParseLoop(Tail(parts), ids)
           ELSE ParseLoop(Tail(parts), Append(ids, id))

ParseCommaSeparatedIDs(parts) == ParseLoop(parts, <<>>)

\* fmt.Sscanf(s, "%d", &id): an optional sign and the longest run of digits
\* that follows; an error when there is no digit.
RECURSIVE DigitPrefix(_)
DigitPrefix(s) ==
  IF s /= <<>> /\ Head(s) \in Digits THEN <<Head(s)>> \o DigitPrefix(Tail(s)) ELSE <<>>

SscanfInt(s) ==
  LET signed == s /= <<>> /\ Head(s) \in {"-", "+"}
      digits == DigitPrefix(IF signed THEN Tail(s) ELSE s)
  IN  [ err |-> digits = <<>>,
        id  |-> IF digits = <<>> THEN 0
                ELSE IF signed /\ Head(s) = "-" THEN 0 - DigitsVal(digits, 0)
                ELSE DigitsVal(digits, 0) ]

(***************************************************************************)
(* Targets and the inputs of a download command.                           *)
(***************************************************************************)
NoPath == <<>>

Target(id, path, data) == [ ID |-> id, Path |-> path, Data |-> data ]

OkResult(t) == [ Target |-> t, Err |-> "nil" ]

\* The zero value of an identifier: "" for a dashboard, 0 for a monitor.
ZeroID(k) == IF k = "monitors" THEN 0 ELSE <<>>

ErrResult(k, e) == [ Target |-> Target(ZeroID(k), NoPath, "nil"), Err |-> e ]

\* Dashboard identifiers a user may type, and a run of k distinct malformed ones.
idA == << "a", "-", "b", "-", "c" >>
idB == << "b", "-", "A", "-", "1" >>
idBad == << "x" >>
BadIDs(k) == [i \in 1..k |-> [j \in 1..i |-> "x"]]

DashboardIDLists ==
  UNION { [1..n -> { idA, idB, idBad }] : n \in 1..MaxIDs }
    \cup { BadIDs(k) : k \in 1..MaxBadIDs }

MonitorIDLists == UNION { [1..n -> { <<"1">>, <<"2">>, <<"x">> }] : n \in 1..MaxIDs }

NoOpts == [ All |-> FALSE, Update |-> FALSE, IDs |-> <<>>, Team |-> <<>>, Tags |-> <<>>,
            Priority |-> 0 ]

\* The selections the command line hands over: nothing, --update, --all,
\* --team, --tags, --id.  --tags and --id are lists of comma-separated parts.
OptsOf(lists) ==
  { NoOpts, [NoOpts EXCEPT !.Update = TRUE], [NoOpts EXCEPT !.All = TRUE],
    [NoOpts EXCEPT !.Team = <<"t">>], [NoOpts EXCEPT !.Tags = << <<"t">>, <<>> >>] }
    \cup { [NoOpts EXCEPT !.IDs = l] : l \in lists }

\* What the local scan and the remote listing can hand back.
ScannedDashboards == SUBSET { idA, idBad }
ListedDashboards == SUBSET { idA, idB }
RemoteMonitors == SUBSET { 1, 2 }
ScannedMonitors == SUBSET { 1, 2 }

ScannedPath(id) == << "scanned", id >>
ComputedPath(id) == << "computed", id >>

VARIABLES
  kind,        \* "dashboards" or "monitors": which download command runs
  opts,        \* the DownloadOptions of the command
  settingsOK,  \* whether config.LoadSettings succeeds in this environment
  pcMain,      \* position of runDownload
  pcProd,      \* position of the enumerator's goroutine
  ordered,     \* whether the goroutine sends todo in order (a slice) or in any
               \* order (a map)
  todo,        \* TargetResults the enumerator's goroutine has still to send
  nItems,      \* TargetResults runDownload has received from targetsCh
  cur,         \* the TargetResult runDownload is handling
  tasks,       \* the download goroutines spawned so far
  wg,          \* the WaitGroup counter
  errCh,       \* the buffer of errCh (each error is named by its item number)
  errClosed,   \* errCh is closed
  pcCloser,    \* position of the goroutine that waits and closes errCh
  hadErr,      \* runDownload's hadErr
  reported,    \* the errors runDownload has printed, in order
  runErr,      \* what runDownload returned: "nil", "failed", "start", or "pending"
  enumErrs,    \* item numbers of the results that carried an enumeration error
  files,       \* paths written by storage.WriteJSONFile
  enumFetched, \* the enumerator's goroutine has called client.Get
  scannedIDs   \* the ids the scan of --update has found

runVars == << enumFetched, scannedIDs, kind, opts, settingsOK, pcMain, pcProd, ordered,
              todo, nItems, cur, tasks, wg, errCh, errClosed, pcCloser, hadErr, reported, runErr,
              enumErrs, files >>

VARIABLES
  sharedOnce,    \* sync.Once: "new", "running" (its function is at work), "done"
  sharedClient,  \* the package variable sharedClient (NoClient is nil)
  constructed,   \* number of clients newClient has built for GetHTTPClient
  getPc,         \* position of each goroutine in GetHTTPClient
  getArg,        \* the settings each goroutine passes
  got            \* the client GetHTTPClient returned to each goroutine

onceVars == << sharedOnce, sharedClient, constructed, getPc, getArg, got >>

VARIABLES
  params,    \* a PaginationParams value
  paged      \* the last NextOffsetPage / NextPage call on it: the method, the
             \* params before the call, itemsReceived and the value returned

pageVars == << params, paged >>

VARIABLES
  eKind,      \* "dashboards" or "monitors": whose enumerator is followed
  eOpts,      \* the DownloadOptions it is called with
  ePageSize,  \* settings.PageSize
  remote,     \* what the listing endpoint holds, in the order it serves it
  local,      \* what the scan of the files written earlier finds
  faults,     \* whether a listing request may fail
  ePc,        \* position of the enumerator: in the call, or in its goroutine
  eCursor,    \* start (dashboards) or page (monitors)
  eAll,       \* allDashboardIDs or allMonitors
  eNext,      \* index in allDashboardIDs of the next candidate to fetch
  eMap,       \* the map fetchAndFilterDashboards builds, as id/data entries
  eDetailOK,  \* ids whose detail fetch has succeeded
  eListErr,   \* a listing request has failed
  eTodo,      \* results the goroutine has still to send
  eOrdered,   \* whether it sends them in order (a slice) or in any order (a map)
  eOut,       \* results received from the channel so far, in order
  eGets,      \* client.Get calls the enumerator has made, by purpose
  eCloses     \* how often the channel out has been closed

enumVars == << eKind, eOpts, ePageSize, remote, local, faults, ePc, eCursor, eAll,
               eNext, eMap, eDetailOK, eListErr, eTodo, eOrdered, eOut, eGets, eCloses >>

VARIABLES
  pureCall,  \* a function of the program and the arguments it is called with
  pureRet    \* what the call has returned, once it has

pureVars == << pureCall, pureRet >>

vars == << clientVars, runVars, onceVars, pageVars, enumVars, pureVars >>

(***************************************************************************)
(* Channel and clock primitives of the client.                             *)
(***************************************************************************)
\* A send that never blocks, as on a channel without a capacity limit.
SemCanSendUnbounded(n) == TRUE

\* c.sem <- struct{}{} can proceed only while the buffer has room.
SemCanSend(n) == n < client.semCap

\* A return that forgets the deferred receive.
SemReceiveLeak(n) == n

\* defer func() { <-c.sem }()
SemReceive(n) == n - 1

\* A setPause that stores whatever is proposed.
SetPauseStoresAlways(prop, current) == TRUE

\* A setPause whose comparison is reversed.
SetPauseStoresEarlier(prop, current) == prop < current

\* proposed.After(c.pauseUntil) decides whether setPause stores.
SetPauseStores(prop, current) == prop > current

\* A waitIfPaused that never waits.
PauseNeverWaits(t, u) == TRUE

\* waitIfPaused returns when no pause is set or the pause has elapsed.
PauseElapsed(t, u) == u = 0 \/ t > u \/ t = u

\* A setPause that takes the duration as it comes.
PauseDurationAsGiven(d) == d

\* if d <= 0 { d = time.Second }
PauseDuration(d) == IF d <= 0 THEN Second ELSE d

\* A retry loop that runs once too often.
MayRetryOnceMore(a) == a <= client.retries

\* attempt < c.retries: another attempt is allowed.
MayRetry(a) == a < client.retries

\* A client that also retries client errors.
RetryableStatus4xx(status) == status >= 400

\* resp.StatusCode >= 500: a transient server error.
RetryableStatus(status) == status >= 500

Later(a, b) == IF a > b THEN a ELSE b

InitShared ==
  /\ cancelled = FALSE
  /\ now = 0
  /\ sem = 0
  /\ pauseMu = Unlocked
  /\ pauseUntil = 0
  /\ loc = [g \in Callers |-> NoLocals]
  /\ result = [g \in Callers |-> NoResult]
  /\ nAttempts = [g \in Callers |-> 0]
  /\ maxProposed = 0
  /\ maxAsked = 0

\* The nil *DatadogHTTPClient.
NoClient == [ instance |-> 0 ]

\* The settings callers of GetHTTPClient may hold: different keys, and an
\* HTTP timeout that is unset or 10s.
SettingsValues ==
  { [ APIKey |-> "k1", HTTPTimeout |-> 0 ], [ APIKey |-> "k2", HTTPTimeout |-> 20 ] }

\* NewOffsetPagination(pageSize)
NewOffsetPagination(pageSize) ==
  [ Start |-> 0, Count |-> pageSize, Page |-> 0, PageSize |-> 0 ]

\* NewPagePagination(pageSize)
NewPagePagination(pageSize) ==
  [ Start |-> 0, Count |-> 0, Page |-> 0, PageSize |-> pageSize ]

\* No method of the params has been called.
NoPaged == [ method |-> "none", before |-> NewOffsetPagination(0), itemsReceived |-> 0,
             more |-> FALSE ]

\* Nothing is paged through.
InitNoPages ==
  /\ params = NewOffsetPagination(0)
  /\ paged = NoPaged

\* No enumerator is followed on its own.
InitNoEnum ==
  /\ eKind = "dashboards"
  /\ eOpts = NoOpts
  /\ ePageSize = 1
  /\ remote = <<>>
  /\ local = [ err |-> FALSE, ids |-> {} ]
  /\ faults = FALSE
  /\ ePc = "idle"
  /\ eCursor = 0
  /\ eAll = <<>>
  /\ eNext = 1
  /\ eMap = {}
  /\ eDetailOK = {}
  /\ eListErr = FALSE
  /\ eTodo = <<>>
  /\ eOrdered = TRUE
  /\ eOut = <<>>
  /\ eGets = [ list |-> 0, detail |-> 0 ]
  /\ eCloses = 0

\* No function is called on its own.
NoCall ==
  [ fn |-> "none", attempt |-> 0, maxConcurrent |-> 0, retries |-> 0, timeout |-> 0,
    raw |-> <<>>, filterTags |-> <<>> ]

NoRet ==
  [ done |-> FALSE, d |-> 0, c |-> newClient(0, 0, 0), tagMap |-> << >>,
    slice |-> FALSE, map |-> FALSE, sliceWithout |-> <<>>, mapWithout |-> << >> ]

InitNoPure ==
  /\ pureCall = NoCall
  /\ pureRet = NoRet

\* Nobody has called GetHTTPClient.
InitNoGet ==
  /\ sharedOnce = "new"
  /\ sharedClient = NoClient
  /\ constructed = 0
  /\ getPc = [g \in Callers |-> "idle"]
  /\ getArg = [g \in Callers |-> CHOOSE x \in SettingsValues : TRUE]
  /\ got = [g \in Callers |-> NoClient]

\* No download command has been started.
InitNoDownload ==
  /\ enumFetched = FALSE
  /\ scannedIDs = {}
  /\ kind = "dashboards"
  /\ opts = NoOpts
  /\ settingsOK = TRUE
  /\ pcMain = "idle"
  /\ pcProd = "none"
  /\ ordered = TRUE
  /\ todo = <<>>
  /\ nItems = 0
  /\ cur = ErrResult(kind, "nil")
  /\ tasks = <<>>
  /\ wg = 0
  /\ errCh = <<>>
  /\ errClosed = FALSE
  /\ pcCloser = "none"
  /\ hadErr = FALSE
  /\ reported = <<>>
  /\ runErr = "pending"
  /\ enumErrs = {}
  /\ files = {}

\* No download command runs, and no other part of the program either.
InitNoRun ==
  /\ InitNoGet
  /\ InitNoPure
  /\ InitNoPages
  /\ InitNoEnum
  /\ InitNoDownload

\* Several goroutines use the shared client at once.
InitClient ==
  /\ client = newClient(CfgMaxConcurrent, CfgRetries, 0)
  /\ server \in ConcurrentBehaviours
  /\ urls = { TRUE }
  /\ horizon = MaxTime
  /\ pc = [g \in Callers |-> "acquire"]
  /\ InitShared
  /\ InitNoRun

\* One goroutine makes one call; the others never use the client.
InitCall ==
  /\ client = newClient(CfgMaxConcurrent, CallRetries, 0)
  /\ server \in CallBehaviours
  /\ urls = BOOLEAN
  /\ horizon = CallMaxTime
  /\ pc = [g \in Callers |-> IF g = 1 THEN "acquire" ELSE "idle"]
  /\ InitShared
  /\ InitNoRun

\* `return resp, err` of GetWithContext: the deferred receive frees the slot.
Return(g, resp, err, after) ==
  /\ pc' = [pc EXCEPT ![g] = "done"]
  /\ loc' = [loc EXCEPT ![g] = NoLocals]
  /\ result' = [result EXCEPT ![g] = [resp |-> resp, err |-> err, after |-> after]]
  /\ sem' = SemReceive(sem)

\* time.Sleep(d); continue
RetrySleep(g, d) ==
  /\ pc' = [pc EXCEPT ![g] = "retrySleep"]
  /\ loc' = [loc EXCEPT ![g].wake = now + d, ![g].asked = 0, ![g].proposed = 0]
  /\ UNCHANGED << sem, result >>

\* A goroutine calls Get(url) / GetWithContext(ctx, url) and gets through
\* c.sem <- struct{}{}; the retry loop starts with attempt = 0.  Callers are
\* interchangeable until then, so they are numbered in the order in which
\* they get their slot.
Acquire(g) ==
  /\ pc[g] = "acquire"
  /\ \A h \in Callers : h < g => pc[h] /= "acquire"
  /\ SemCanSend(sem)
  /\ sem' = sem + 1
  /\ \E ok \in urls : loc' = [loc EXCEPT ![g].urlOK = ok]
  /\ pc' = [pc EXCEPT ![g] = "waitIfPaused"]
  /\ UNCHANGED << client, server, urls, horizon, cancelled, now, pauseMu,
                  pauseUntil, result, nAttempts, maxProposed, maxAsked >>
  /\ UNCHANGED << runVars, onceVars, pageVars, enumVars, pureVars >>

\* One iteration of waitIfPaused, entered at the top of the retry loop (after
\* `continue` has run attempt++ when the retry sleep is over) or when its own
\* time.Sleep(time.Until(until)) is over: read now and pauseUntil under the
\* mutex, then return, or sleep until the pause ends.
WaitIfPaused(g) ==
  /\ pc[g] \in { "waitIfPaused", "retrySleep" }
  /\ now >= loc[g].wake
  /\ pauseMu = Unlocked
  /\ LET a == IF pc[g] = "retrySleep" THEN loc[g].attempt + 1 ELSE loc[g].attempt
     IN  IF PauseElapsed(now, pauseUntil)
         THEN /\ pc' = [pc EXCEPT ![g] = "newRequest"]
              /\ loc' = [loc EXCEPT ![g].attempt = a, ![g].wait = 0, ![g].wake = 0]
         ELSE /\ pc' = [pc EXCEPT ![g] = "waitIfPaused"]
              /\ loc' = [loc EXCEPT ![g].attempt = a, ![g].wait = 0,
                                    ![g].wake = pauseUntil]
  /\ UNCHANGED << client, server, urls, horizon, cancelled, now, sem, pauseMu,
                  pauseUntil, result, nAttempts, maxProposed, maxAsked >>
  /\ UNCHANGED << runVars, onceVars, pageVars, enumVars, pureVars >>

\* http.NewRequestWithContext, the headers, and the start of UnderlyingHTTP.Do.
NewRequest(g) ==
  /\ pc[g] = "newRequest"
  /\ IF loc[g].urlOK
     THEN /\ pc' = [pc EXCEPT ![g] = "do"]
          /\ nAttempts' = [nAttempts EXCEPT ![g] = @ + 1]
          /\ UNCHANGED << sem, loc, result >>
     ELSE /\ Return(g, 0, "request", 0)
          /\ UNCHANGED nAttempts
  /\ UNCHANGED << client, server, urls, horizon, cancelled, now, pauseMu,
                  pauseUntil, maxProposed, maxAsked >>
  /\ UNCHANGED << runVars, onceVars, pageVars, enumVars, pureVars >>

\* What UnderlyingHTTP.Do can return for a request built with ctx: once ctx
\* is cancelled the round trip is given up and Do returns ctx's error.
RoundTrips(done, outcomes) == IF done THEN { TransportError } ELSE outcomes

\* A client that turns the last 5xx into an error.
LastServerErrorAsError(status) == [ resp |-> 0, err |-> "server" ]

\* return resp, nil - the last 5xx goes back to the caller as it is.
LastServerError(status) == [ resp |-> status, err |-> "nil" ]

\* UnderlyingHTTP.Do returns a transport error or a status other than 429.
DoReturn(g) ==
  /\ pc[g] = "do"
  /\ \E o \in RoundTrips(cancelled, server) :
       /\ o.failed \/ o.status /= StatusTooManyRequests
       /\ IF o.failed
          THEN IF MayRetry(loc[g].attempt)
               THEN RetrySleep(g, backoffDuration(loc[g].attempt))
               ELSE Return(g, 0, "transport", 0)
          ELSE IF RetryableStatus(o.status)
          THEN IF MayRetry(loc[g].attempt)
               THEN RetrySleep(g, backoffDuration(loc[g].attempt))
               ELSE Return(g, LastServerError(o.status).resp,
                           LastServerError(o.status).err, 0)
          ELSE Return(g, o.status, "nil", 0)
  /\ UNCHANGED << client, server, urls, horizon, cancelled, now, pauseMu,
                  pauseUntil, nAttempts, maxProposed, maxAsked >>
  /\ UNCHANGED << runVars, onceVars, pageVars, enumVars, pureVars >>

\* UnderlyingHTTP.Do returns a 429: wait := parseRetryAfter(resp), then
\* setPause(wait) up to its comparison: a non-positive d becomes one second,
\* the mutex is taken and proposed := time.Now().Add(d).
SetPauseLock(g) ==
  /\ pc[g] = "do"
  /\ pauseMu = Unlocked
  /\ \E o \in RoundTrips(cancelled, server) :
       /\ ~o.failed /\ o.status = StatusTooManyRequests
       /\ LET w == parseRetryAfter(o)
          IN  /\ loc' = [loc EXCEPT ![g].wait = w,
                                    ![g].asked = now + w,
                                    ![g].proposed = now + PauseDuration(w)]
              /\ maxProposed' = Later(now + PauseDuration(w), maxProposed)
              /\ maxAsked' = Later(now + w, maxAsked)
  /\ pauseMu' = g
  /\ pc' = [pc EXCEPT ![g] = "setPause"]
  /\ UNCHANGED << client, server, urls, horizon, cancelled, now, sem,
                  pauseUntil, result, nAttempts >>
  /\ UNCHANGED << runVars, onceVars, pageVars, enumVars, pureVars >>

\* The rest of setPause (compare, store, unlock) and what GetWithContext does
\* next: sleep `wait` and retry, or give up with a rateLimitedError.
SetPauseStore(g) ==
  /\ pc[g] = "setPause"
  /\ pauseMu = g
  /\ pauseUntil' = IF SetPauseStores(loc[g].proposed, pauseUntil)
                   THEN loc[g].proposed ELSE pauseUntil
  /\ pauseMu' = Unlocked
  /\ IF MayRetry(loc[g].attempt)
     THEN RetrySleep(g, loc[g].wait)
     ELSE Return(g, 0, "rateLimited", loc[g].wait)
  /\ UNCHANGED << client, server, urls, horizon, cancelled, now, nAttempts,
                  maxProposed, maxAsked >>
  /\ UNCHANGED << runVars, onceVars, pageVars, enumVars, pureVars >>

\* Time passes.
Tick ==
  /\ now < horizon
  /\ now' = now + 1
  /\ UNCHANGED << client, server, urls, horizon, cancelled, sem, pauseMu,
                  pauseUntil, pc, loc, result, nAttempts, maxProposed,
                  maxAsked >>
  /\ UNCHANGED << runVars, onceVars, pageVars, enumVars, pureVars >>

\* The context handed to the calls is cancelled (or its deadline passes).
Cancel ==
  /\ ~cancelled
  /\ cancelled' = TRUE
  /\ UNCHANGED << client, server, urls, horizon, now, sem, pauseMu, pauseUntil, pc, loc,
                  result, nAttempts, maxProposed, maxAsked >>
  /\ UNCHANGED << runVars, onceVars, pageVars, enumVars, pureVars >>

NextClient ==
  \/ Tick
  \/ \E g \in Callers : Acquire(g)
  \/ \E g \in Callers : WaitIfPaused(g)
  \/ \E g \in Callers : NewRequest(g)
  \/ \E g \in Callers : DoReturn(g)
  \/ \E g \in Callers : SetPauseLock(g)
  \/ \E g \in Callers : SetPauseStore(g)

(***************************************************************************)
(* The download commands: runDownload, the enumerator it consumes          *)
(* (GenerateDashboardTargets, GenerateMonitorTargets) and the download     *)
(* goroutines (DownloadDashboardWithOptions, DownloadMonitorWithOptions).  *)
(* The shared client is summarised by what its Get hands back.             *)
(***************************************************************************)
RECURSIVE SetToSeq(_)
SetToSeq(S) ==
  IF S = {} THEN <<>>
  ELSE LET x == CHOOSE y \in S : TRUE IN <<x>> \o SetToSeq(S \ {x})

Remove(q, i) == SubSeq(q, 1, i - 1) \o SubSeq(q, i + 1, Len(q))

\* The --id branch of GenerateDashboardTargets: one result per parsed
\* identifier, an error for a malformed one, the lowercased id otherwise.
DashboardIDResults(ids) ==
  [i \in 1..Len(ids) |->
     LET n == normalizezDashboardID(ids[i])
     IN  IF n.err THEN ErrResult("dashboards", "invalid dashboard ID")
         ELSE OkResult(Target(n.id, NoPath, "nil"))]

\* GenerateDashboardTargets up to the start of its goroutine: an error, or
\* the job the goroutine is given.
GenerateDashboardTargets(o, loaded) ==
  IF ~loaded THEN [ err |-> TRUE, job |-> "none", todo |-> <<>>, ids |-> <<>> ]
  ELSE IF o.Update THEN [ err |-> FALSE, job |-> "scan", todo |-> <<>>, ids |-> <<>> ]
  ELSE IF o.All THEN [ err |-> FALSE, job |-> "fetch", todo |-> <<>>, ids |-> <<>> ]
  ELSE IF o.IDs /= <<>>
  THEN [ err |-> FALSE, job |-> "send",
         todo |-> DashboardIDResults(ParseCommaSeparatedIDs(o.IDs)), ids |-> <<>> ]
  ELSE IF o.Team /= <<>> \/ ParseCommaSeparatedIDs(o.Tags) /= <<>>
  THEN [ err |-> FALSE, job |-> "fetchTags", todo |-> <<>>, ids |-> <<>> ]
  ELSE [ err |-> TRUE, job |-> "none", todo |-> <<>>, ids |-> <<>> ]

\* GenerateMonitorTargets up to the start of its goroutine: every part of
\* --id must scan as an integer, or the call fails as a whole.
GenerateMonitorTargets(o, loaded) ==
  LET scanned == [i \in 1..Len(o.IDs) |-> SscanfInt(TrimSpace(o.IDs[i]))]
  IN  IF ~loaded THEN [ err |-> TRUE, job |-> "none", todo |-> <<>>, ids |-> <<>> ]
      ELSE IF \E i \in 1..Len(scanned) : scanned[i].err
      THEN [ err |-> TRUE, job |-> "none", todo |-> <<>>, ids |-> <<>> ]
      ELSE [ err |-> FALSE, job |-> IF o.Update THEN "scan" ELSE "fetch",
             todo |-> <<>>, ids |-> [i \in 1..Len(scanned) |-> scanned[i].id] ]

InitRun ==
  /\ enumFetched = FALSE
  /\ scannedIDs = {}
  /\ InitNoGet
  /\ InitNoPure
  /\ InitNoPages
  /\ InitNoEnum
  /\ kind \in { "dashboards", "monitors" }
  /\ opts \in IF kind = "dashboards" THEN OptsOf(DashboardIDLists)
              ELSE OptsOf(MonitorIDLists)
  /\ settingsOK \in BOOLEAN
  /\ pcMain = "start"
  /\ pcProd = "none"
  /\ ordered = TRUE
  /\ todo = <<>>
  /\ nItems = 0
  /\ cur = ErrResult(kind, "nil")
  /\ tasks = <<>>
  /\ wg = 0
  /\ errCh = <<>>
  /\ errClosed = FALSE
  /\ pcCloser = "none"
  /\ hadErr = FALSE
  /\ reported = <<>>
  /\ runErr = "pending"
  /\ enumErrs = {}
  /\ files = {}
  /\ client = newClient(defaultMaxConcurrency, defaultRetries, 0)
  /\ server = {}
  /\ urls = { TRUE }
  /\ horizon = 0
  /\ pc = [g \in Callers |-> "idle"]
  /\ InitShared

\* runDownload calls the enumerator and returns its error, or starts to
\* range over targetsCh.
RunStart ==
  /\ pcMain = "start"
  /\ LET g == IF kind = "dashboards" THEN GenerateDashboardTargets(opts, settingsOK)
              ELSE GenerateMonitorTargets(opts, settingsOK)
     IN  IF g.err
         THEN /\ pcMain' = "returned"
              /\ runErr' = "start"
              /\ UNCHANGED << pcProd, todo, ordered >>
         ELSE /\ pcMain' = "range"
              /\ pcProd' = g.job
              /\ todo' = g.todo
              /\ ordered' = TRUE
              /\ UNCHANGED runErr
  /\ UNCHANGED << enumFetched, scannedIDs,
                  kind, opts, settingsOK, nItems, cur, tasks, wg, errCh, errClosed,
                  pcCloser, hadErr, reported, enumErrs, files >>
  /\ UNCHANGED << clientVars, onceVars, pageVars, enumVars, pureVars >>

\* The goroutine of --update scans the files already written
\* (ExtractIDsFromJSONFiles): an error result, or one target per file with
\* the path of the file.
ProducerScan ==
  /\ pcProd = "scan"
  /\ \/ /\ todo' = << ErrResult(kind, "failed to scan directory") >>
        /\ UNCHANGED scannedIDs
     \/ \E S \in (IF kind = "dashboards" THEN ScannedDashboards ELSE ScannedMonitors) :
          /\ todo' = SetToSeq({ OkResult(Target(id, ScannedPath(id), "nil")) : id \in S })
          /\ scannedIDs' = S
  /\ ordered' = FALSE
  /\ pcProd' = "send"
  /\ UNCHANGED << enumFetched,
                  kind, opts, settingsOK, pcMain, nItems, cur, tasks, wg, errCh,
                  errClosed, pcCloser, hadErr, reported, runErr, enumErrs, files >>
  /\ UNCHANGED << clientVars, onceVars, pageVars, enumVars, pureVars >>

\* The goroutine lists the remote resources: an error result when a page
\* cannot be fetched, or one target per listed resource - for dashboards the
\* bare id (fetchAndFilterDashboards(nil, false)) or, when tags select them,
\* the id with the dashboard fetched for the filter as Data
\* (fetchAndFilterDashboards(filterTags, true)); for monitors the listed
\* monitor itself as Data, kept only if --id names it when --id is given.
ProducerFetch ==
  /\ pcProd \in { "fetch", "fetchTags" }
  /\ \/ /\ todo' = << ErrResult(kind, "failed to fetch") >>
        /\ ordered' = TRUE
     \/ /\ kind = "dashboards"
        /\ \E S \in ListedDashboards :
             todo' = SetToSeq({ OkResult(Target(id, NoPath,
                                               IF pcProd = "fetchTags" THEN "payload"
                                               ELSE "nil")) : id \in S })
        /\ ordered' = FALSE
     \/ /\ kind = "monitors"
        /\ LET ids == [i \in 1..Len(opts.IDs) |-> SscanfInt(TrimSpace(opts.IDs[i])).id]
               wanted(m) == Len(ids) = 0 \/ \E i \in 1..Len(ids) : ids[i] = m
           IN  \E S \in RemoteMonitors :
                 todo' = SetToSeq({ OkResult(Target(m, NoPath, "payload")) :
                                    m \in { x \in S : wanted(x) } })
        /\ ordered' = FALSE
  /\ pcProd' = "send"
  /\ enumFetched' = TRUE
  /\ UNCHANGED << scannedIDs,
                  kind, opts, settingsOK, pcMain, nItems, cur, tasks, wg, errCh,
                  errClosed, pcCloser, hadErr, reported, runErr, enumErrs, files >>
  /\ UNCHANGED << clientVars, onceVars, pageVars, enumVars, pureVars >>

\* What client.Get hands back to a download: an error, or a response with its
\* status and a body that decodes into a JSON object or does not.  A 5xx
\* status is the response the client returns once its retries are used up.
NoResponse == [ err |-> FALSE, status |-> 0, body |-> "none" ]

GetResults ==
  { [ err |-> TRUE, status |-> 0, body |-> "none" ] }
    \cup { [ err |-> FALSE, status |-> st, body |-> b ] :
           st \in { StatusOK, StatusNotFound, StatusInternalServerError },
           b \in { "json", "malformed" } }

\* A download that checks the error of the call only.
FetchFailsOnErrorOnly(r) == r.err

\* if err != nil / if resp.StatusCode != http.StatusOK / if err := Decode(...)
FetchFails(r) == r.err \/ r.status /= StatusOK \/ r.body = "malformed"

\* A new download goroutine for the target of item number n.
NewTask(n, t) ==
  [ item |-> n, target |-> t, pc |-> "start", fetched |-> FALSE, written |-> FALSE,
    templated |-> FALSE, resp |-> NoResponse ]

\* One send on the unbuffered targetsCh meets the receive of runDownload's
\* range loop.  A result that carries an error is kept to be put on errCh;
\* for any other result a download goroutine is spawned (wg.Add(1); go ...).
Receive ==
  /\ pcMain = "range"
  /\ pcProd = "send"
  /\ \E i \in 1..Len(todo) :
       /\ ordered => i = 1
       /\ todo' = Remove(todo, i)
       /\ cur' = todo[i]
       /\ nItems' = nItems + 1
       /\ IF todo[i].Err /= "nil"
          THEN /\ pcMain' = "sendErr"
               /\ enumErrs' = enumErrs \cup { nItems + 1 }
               /\ UNCHANGED << tasks, wg >>
          ELSE /\ tasks' = Append(tasks, NewTask(nItems + 1, todo[i].Target))
               /\ wg' = wg + 1
               /\ UNCHANGED << pcMain, enumErrs >>
  /\ UNCHANGED << enumFetched, scannedIDs,
                  kind, opts, settingsOK, pcProd, ordered, errCh, errClosed,
                  pcCloser, hadErr, reported, runErr, files >>
  /\ UNCHANGED << clientVars, onceVars, pageVars, enumVars, pureVars >>

\* errCh <- result.Err, which needs room in the buffer; continue.
SendEnumErr ==
  /\ pcMain = "sendErr"
  /\ Len(errCh) < errorChannelBuffer
  /\ errCh' = Append(errCh, nItems)
  /\ pcMain' = "range"
  /\ UNCHANGED << enumFetched, scannedIDs,
                  kind, opts, settingsOK, pcProd, ordered, todo, nItems, cur, tasks,
                  wg, errClosed, pcCloser, hadErr, reported, runErr, enumErrs, files >>
  /\ UNCHANGED << clientVars, onceVars, pageVars, enumVars, pureVars >>

\* The enumerator's goroutine has nothing left to send: defer close(out).
ProducerClose ==
  /\ pcProd = "send"
  /\ todo = <<>>
  /\ pcProd' = "closed"
  /\ UNCHANGED << enumFetched, scannedIDs,
                  kind, opts, settingsOK, pcMain, ordered, todo, nItems, cur, tasks,
                  wg, errCh, errClosed, pcCloser, hadErr, reported, runErr, enumErrs,
                  files >>
  /\ UNCHANGED << clientVars, onceVars, pageVars, enumVars, pureVars >>

\* targetsCh is closed: the range loop ends and the goroutine that waits for
\* the downloads and closes errCh is started.
LoopEnd ==
  /\ pcMain = "range"
  /\ pcProd = "closed"
  /\ pcCloser' = "wait"
  /\ pcMain' = "collect"
  /\ UNCHANGED << enumFetched, scannedIDs,
                  kind, opts, settingsOK, pcProd, ordered, todo, nItems, cur, tasks,
                  wg, errCh, errClosed, hadErr, reported, runErr, enumErrs, files >>
  /\ UNCHANGED << clientVars, onceVars, pageVars, enumVars, pureVars >>

\* A closer that does not wait for the downloads.
WaitReturnsAtOnce(n) == TRUE

\* wg.Wait() returns once the counter is back to zero.
WaitReturns(n) == n = 0

\* wg.Wait() returns; close(errCh).
CloseErrCh ==
  /\ pcCloser = "wait"
  /\ WaitReturns(wg)
  /\ errClosed' = TRUE
  /\ pcCloser' = "done"
  /\ UNCHANGED << enumFetched, scannedIDs,
                  kind, opts, settingsOK, pcMain, pcProd, ordered, todo, nItems, cur,
                  tasks, wg, errCh, hadErr, reported, runErr, enumErrs, files >>
  /\ UNCHANGED << clientVars, onceVars, pageVars, enumVars, pureVars >>

\* for e := range errCh: one error is received and printed.
Collect ==
  /\ pcMain = "collect"
  /\ errCh /= <<>>
  /\ hadErr' = TRUE
  /\ reported' = Append(reported, Head(errCh))
  /\ errCh' = Tail(errCh)
  /\ UNCHANGED << enumFetched, scannedIDs,
                  kind, opts, settingsOK, pcMain, pcProd, ordered, todo, nItems, cur,
                  tasks, wg, errClosed, pcCloser, runErr, enumErrs, files >>
  /\ UNCHANGED << clientVars, onceVars, pageVars, enumVars, pureVars >>

\* A runDownload that forgets hadErr.
RunOutcomeNil(h) == "nil"

\* if hadErr { return fmt.Errorf("one or more ... failed to download") }; return nil
RunOutcome(h) == IF h THEN "failed" ELSE "nil"

\* errCh is closed and drained: runDownload returns.
ReturnRun ==
  /\ pcMain = "collect"
  /\ errCh = <<>>
  /\ errClosed
  /\ runErr' = RunOutcome(hadErr)
  /\ pcMain' = "returned"
  /\ UNCHANGED << enumFetched, scannedIDs,
                  kind, opts, settingsOK, pcProd, ordered, todo, nItems, cur, tasks,
                  wg, errCh, errClosed, pcCloser, hadErr, reported, enumErrs, files >>
  /\ UNCHANGED << clientVars, onceVars, pageVars, enumVars, pureVars >>

TaskVars(k, t) ==
  /\ tasks' = [tasks EXCEPT ![k] = t]
  /\ UNCHANGED << enumFetched, scannedIDs,
                  kind, opts, settingsOK, pcMain, pcProd, ordered, todo, nItems, cur,
                  errClosed, pcCloser, hadErr, reported, runErr, enumErrs >>
  /\ UNCHANGED << clientVars, onceVars, pageVars, enumVars, pureVars >>

\* A download that never looks at the attached payload.
HasDataIgnored(t) == FALSE

\* if target.Data != nil { result = target.Data }
HasData(t) == t.Data /= "nil"

\* The download goroutine up to its network call: the dashboard id is
\* normalized again, the settings are loaded, and a target that carries
\* Data skips the fetch.
TaskStart(k) ==
  /\ k \in 1..Len(tasks)
  /\ tasks[k].pc = "start"
  /\ LET t == tasks[k]
         n == IF kind = "dashboards" THEN normalizezDashboardID(t.target.ID)
              ELSE [err |-> FALSE, id |-> t.target.ID]
     IN  IF n.err \/ ~settingsOK
         THEN TaskVars(k, [t EXCEPT !.pc = "sendErr"])
         ELSE IF HasData(t.target)
         THEN TaskVars(k, [t EXCEPT !.pc = "write", !.target.ID = n.id])
         ELSE TaskVars(k, [t EXCEPT !.pc = "get", !.target.ID = n.id, !.fetched = TRUE])
  /\ UNCHANGED << wg, errCh, files >>

\* client.Get returns: an error, a status other than 200, a body that does
\* not decode, or the payload.
TaskGet(k) ==
  /\ k \in 1..Len(tasks)
  /\ tasks[k].pc = "get"
  /\ \E r \in GetResults :
       IF FetchFails(r)
       THEN TaskVars(k, [tasks[k] EXCEPT !.pc = "sendErr", !.resp = r])
       ELSE TaskVars(k, [tasks[k] EXCEPT !.pc = "write", !.resp = r])
  /\ UNCHANGED << wg, errCh, files >>

\* A download that computes the path whatever the target says.
UsesTemplateAlways(t) == TRUE

\* if targetPath == "" { targetPath = ComputeDashboardPath(...) }
UsesTemplate(t) == t.Path = NoPath

\* The path is the target's own or is computed from the payload, then
\* storage.WriteJSONFile succeeds or fails; on success the goroutine ends
\* (wg.Done).
TaskWrite(k) ==
  /\ k \in 1..Len(tasks)
  /\ tasks[k].pc = "write"
  /\ LET t == tasks[k]
         templated == UsesTemplate(t.target)
         targetPath == IF templated THEN ComputedPath(t.target.ID) ELSE t.target.Path
     IN  \/ /\ TaskVars(k, [t EXCEPT !.pc = "done", !.written = TRUE,
                                      !.templated = templated])
            /\ files' = files \cup { targetPath }
            /\ wg' = wg - 1
            /\ UNCHANGED errCh
         \/ /\ TaskVars(k, [t EXCEPT !.pc = "sendErr", !.templated = templated])
            /\ UNCHANGED << wg, errCh, files >>

\* errCh <- fmt.Errorf("%s: %w", target.ID, err), which needs room in the
\* buffer and panics on a closed channel; then the goroutine ends (wg.Done).
TaskSendErr(k) ==
  /\ k \in 1..Len(tasks)
  /\ tasks[k].pc = "sendErr"
  /\ IF errClosed
     THEN /\ TaskVars(k, [tasks[k] EXCEPT !.pc = "panic"])
          /\ UNCHANGED << wg, errCh >>
     ELSE /\ Len(errCh) < errorChannelBuffer
          /\ errCh' = Append(errCh, tasks[k].item)
          /\ TaskVars(k, [tasks[k] EXCEPT !.pc = "failed"])
          /\ wg' = wg - 1
  /\ UNCHANGED files

MaxTasks == IF MaxIDs > MaxBadIDs THEN MaxIDs ELSE MaxBadIDs

NextRun ==
  \/ RunStart
  \/ ProducerScan
  \/ ProducerFetch
  \/ Receive
  \/ SendEnumErr
  \/ ProducerClose
  \/ LoopEnd
  \/ CloseErrCh
  \/ Collect
  \/ ReturnRun
  \/ \E k \in 1..MaxTasks : TaskStart(k)
  \/ \E k \in 1..MaxTasks : TaskGet(k)
  \/ \E k \in 1..MaxTasks : TaskWrite(k)
  \/ \E k \in 1..MaxTasks : TaskSendErr(k)

SpecRun == InitRun /\ [][NextRun]_vars

SpecClient == InitClient /\ [][NextClient]_vars

SpecCall == InitCall /\ [][NextClient]_vars

\* One call whose context may be cancelled at any moment.
NextCancel == NextClient \/ Cancel

SpecCancel == InitCall /\ [][NextCancel]_vars

Spec == SpecClient

(***************************************************************************)
(* Properties of the shared HTTP client.                                   *)
(***************************************************************************)

\* The goroutines between `c.sem <- struct{}{}` and the return of their call.
Holding ==
  { g \in Callers :
      pc[g] \in { "waitIfPaused", "newRequest", "do", "setPause", "retrySleep" } }

\* The goroutines inside UnderlyingHTTP.Do.
InFlight == { g \in Callers : pc[g] = "do" }

\* C1: with a concurrency cap of N, the calls that have taken a slot and not
\* yet returned never number more than N, and so neither do the requests in
\* flight.
C1_ConcurrencyCap ==
  /\ Cardinality(Holding) <= client.semCap
  /\ Cardinality(InFlight) <= client.semCap

\* C1 witness: every slot is taken by a request in flight while one more
\* caller waits for a slot.
C1_CapReached ==
  /\ NumCallers > client.semCap
  /\ Cardinality(InFlight) = client.semCap
  /\ \E g \in Callers : pc[g] = "acquire"

\* C2: pauseUntil never moves backward, and a setPause whose proposal does
\* not lie beyond the current pauseUntil leaves it as it is.
C2_PauseNeverMovesBack ==
  [][ /\ pauseUntil' >= pauseUntil
      /\ \A g \in Callers :
           (pc[g] = "setPause" /\ pc'[g] /= "setPause"
              /\ loc[g].proposed <= pauseUntil)
             => pauseUntil' = pauseUntil ]_vars

\* C2 witness: a goroutine is inside setPause with a proposal that ends
\* before the pause already in force.
C2_ShorterProposal ==
  \E g \in Callers :
    /\ pc[g] = "setPause"
    /\ pauseMu = g
    /\ loc[g].proposed < pauseUntil

\* C3 as stated: whenever no setPause is under way, pauseUntil is the
\* greatest now + wait over the 429 responses handled so far.
C3_PauseIsMaxOfNowPlusWait ==
  pauseMu = Unlocked => pauseUntil = maxAsked

\* C3: whenever no setPause is under way, pauseUntil is the greatest value
\* proposed so far, a proposal being now + wait for a positive wait and
\* now + one second for a wait of zero (or less).
C3_PauseIsMaxProposed ==
  pauseMu = Unlocked => pauseUntil = maxProposed

\* C3 witness: two goroutines have been through setPause, one with a wait of
\* two seconds and one with a wait of zero, and sleep before their retry.
C3_TwoProposals ==
  /\ pauseMu = Unlocked
  /\ pauseUntil > 0
  /\ \E g, h \in Callers :
       /\ g /= h
       /\ pc[g] = "retrySleep" /\ loc[g].wait = 2 * Second
       /\ pc[h] = "retrySleep" /\ loc[h].wait = 0
       /\ HTTPResponse(StatusTooManyRequests, <<"0">>) \in server

\* C4: against a server that answers every request with 429 and
\* Retry-After: 0, a call with retries = R that reaches the server makes
\* exactly R + 1 attempts and returns no response and a rate-limit error that
\* carries the wait of the last 429.
C4_AttemptsThenRateLimited ==
  \A g \in Callers :
    ( /\ server = { HTTPResponse(StatusTooManyRequests, <<"0">>) }
      /\ pc[g] = "done"
      /\ nAttempts[g] > 0 )
    => /\ nAttempts[g] = client.retries + 1
       /\ result[g] = [ resp |-> 0, err |-> "rateLimited", after |-> 0 ]

\* C4 witness: such a call has returned after R + 1 attempts.
C4_Exhausted ==
  /\ server = { HTTPResponse(StatusTooManyRequests, <<"0">>) }
  /\ client.retries > 0
  /\ pc[1] = "done"
  /\ nAttempts[1] = client.retries + 1
  /\ result[1].err = "rateLimited"

C9_SlotsMatchCalls ==
  /\ sem = Cardinality(Holding)
  /\ Holding = {} => sem = 0

\* C9 witness: a call that failed to build its request has returned and no
\* slot is in use.
C9_ReleasedAfterRequestError ==
  /\ pc[1] = "done"
  /\ result[1].err = "request"
  /\ Holding = {}
  /\ sem = 0

\* The statuses that are neither 429 nor 5xx.
FinalResponses == { HTTPResponse(StatusOK, <<>>), HTTPResponse(StatusNotFound, <<>>) }

\* C10: when the server answers with a status that is neither 429 nor 5xx,
\* the call makes exactly one attempt and returns that response with a nil
\* error, without a backoff sleep and without touching pauseUntil.
C10_FinalStatusReturnedAtOnce ==
  (server /= {} /\ server \subseteq FinalResponses)
  => /\ pauseUntil = 0
     /\ maxProposed = 0
     /\ \A g \in Callers :
          /\ nAttempts[g] <= 1
          /\ pc[g] \notin { "retrySleep", "setPause" }
          /\ loc[g].attempt = 0
          /\ (pc[g] = "done" /\ nAttempts[g] = 1)
               => /\ result[g].err = "nil"
                  /\ result[g].after = 0
                  /\ HTTPResponse(result[g].resp, <<>>) \in server

\* C10 witness: a call answered with 404 has returned it after one attempt.
C10_NotFoundReturned ==
  /\ server = { HTTPResponse(StatusNotFound, <<>>) }
  /\ pc[1] = "done"
  /\ nAttempts[1] = 1
  /\ result[1] = [ resp |-> StatusNotFound, err |-> "nil", after |-> 0 ]

(***************************************************************************)
(* Properties of the download commands.                                    *)
(***************************************************************************)

\* The download goroutines that ended, or are about to end, with an error.
FailedDownloads ==
  { k \in 1..Len(tasks) : tasks[k].pc \in { "sendErr", "failed", "panic" } }

\* The download goroutines that wrote their file and ended.
WrittenDownloads ==
  { k \in 1..Len(tasks) : tasks[k].pc = "done" /\ tasks[k].written }

\* The items of the stream for which an error was recorded.
Recorded == enumErrs \cup { tasks[k].item : k \in FailedDownloads }

C7_FailureIffRecorded ==
  pcMain = "returned" => (runErr /= "nil" <=> Recorded /= {})

\* C7: when the enumerator hands back a stream, runDownload returns failure
\* if and only if at least one error was recorded, and success exactly when
\* every item was a target that was downloaded and written; when the
\* enumerator itself fails, runDownload returns that error with nothing
\* recorded.
C7_FailureIffRecordedOnStream ==
  pcMain = "returned" =>
    IF pcProd = "none"
    THEN runErr = "start" /\ Recorded = {} /\ nItems = 0 /\ reported = <<>>
    ELSE /\ runErr \in { "failed", "nil" }
         /\ runErr = "failed" <=> Recorded /= {}
         /\ runErr = "nil" <=> Cardinality(WrittenDownloads) = nItems
         /\ Len(reported) = Cardinality(Recorded)

\* C7 witness: a run has returned failure after one download failed and
\* another was written, with no enumeration error.
C7_FailedDownloadOnly ==
  /\ pcMain = "returned"
  /\ runErr = "failed"
  /\ enumErrs = {}
  /\ Cardinality(FailedDownloads) = 1
  /\ Cardinality(WrittenDownloads) >= 1

\* C8 as stated: for a stream item that carries an error the orchestrator
\* spawns no download, records the error in the sink, and goes on with the
\* next item: the send of the error never finds the sink full.
C8_EnumErrorRecorded ==
  /\ \A k \in 1..Len(tasks) : tasks[k].item \notin enumErrs
  /\ pcMain /= "sendErr" =>
       \A n \in enumErrs :
         (\E i \in 1..Len(errCh) : errCh[i] = n)
           \/ (\E i \in 1..Len(reported) : reported[i] = n)
  /\ pcMain = "sendErr" => Len(errCh) < errorChannelBuffer

\* C11: against a server that always answers 500 a call that reaches the
\* server makes exactly R + 1 attempts and returns the 500 response with a
\* nil error; against one that answers 500 or 200 every call returns with a
\* nil error, and returns a 500 only when the R + 1 attempts are used up -
\* a 200 that follows 500s within the budget is what the call returns.
C11_ServerErrorReturnedAsIs ==
  \A g \in Callers :
    (pc[g] = "done" /\ nAttempts[g] > 0) =>
      /\ server = { HTTPResponse(StatusInternalServerError, <<>>) }
           => /\ nAttempts[g] = client.retries + 1
              /\ result[g] = [ resp |-> StatusInternalServerError, err |-> "nil",
                               after |-> 0 ]
      /\ server = { HTTPResponse(StatusInternalServerError, <<>>),
                    HTTPResponse(StatusOK, <<>>) }
           => /\ result[g].err = "nil"
              /\ nAttempts[g] <= client.retries + 1
              /\ result[g].resp = StatusOK
                   \/ ( result[g].resp = StatusInternalServerError
                        /\ nAttempts[g] = client.retries + 1 )

\* C11 witness: a call answered 500 and then 200 has returned the 200 after
\* two attempts.
C11_SuccessAfterServerError ==
  /\ server = { HTTPResponse(StatusInternalServerError, <<>>),
                HTTPResponse(StatusOK, <<>>) }
  /\ pc[1] = "done"
  /\ nAttempts[1] = 2
  /\ result[1] = [ resp |-> StatusOK, err |-> "nil", after |-> 0 ]

\* The backoff the retry policy prescribes before attempt number k + 2:
\* 500ms doubled k times, at most 5s, in units of 500ms.
RECURSIVE PrescribedBackoff(_)
PrescribedBackoff(k) ==
  IF k = 0 THEN 1
  ELSE IF 2 * PrescribedBackoff(k - 1) > 10 THEN 10 ELSE 2 * PrescribedBackoff(k - 1)

\* The time the backoffs before attempt number n take at least.
RECURSIVE BackoffBefore(_)
BackoffBefore(n) ==
  IF n <= 1 THEN 0 ELSE BackoffBefore(n - 1) + PrescribedBackoff(n - 2)

\* C12: when every attempt fails with a transport error, a call makes at
\* most R + 1 attempts, attempt n is not made before the backoffs of the
\* n - 1 attempts before it have gone by, a call never sleeps once its last
\* attempt has failed, and it returns no response and the transport error
\* after exactly R + 1 attempts.
C12_TransportErrorsExhaustBudget ==
  server = { TransportError } =>
    \A g \in Callers :
      /\ nAttempts[g] <= client.retries + 1
      /\ now >= BackoffBefore(nAttempts[g])
      /\ pc[g] = "retrySleep"
           => /\ loc[g].attempt < client.retries
              /\ nAttempts[g] = loc[g].attempt + 1
              /\ loc[g].wake >= BackoffBefore(nAttempts[g] + 1)
      /\ (pc[g] = "done" /\ nAttempts[g] > 0)
           => /\ nAttempts[g] = client.retries + 1
              /\ result[g] = [ resp |-> 0, err |-> "transport", after |-> 0 ]

\* C12 witness: the call has returned the transport error as early as the
\* backoffs allow.
C12_ReturnedAfterBackoffs ==
  /\ server = { TransportError }
  /\ client.retries >= 2
  /\ pc[1] = "done"
  /\ result[1].err = "transport"
  /\ nAttempts[1] = client.retries + 1
  /\ now = BackoffBefore(client.retries + 1)

\* C13: whatever the server answers, a call never makes more than R + 1
\* attempts: every attempt, whether it ended in a transport error, a 429 or
\* a 5xx, counts against the one loop counter; and the attempts of a call
\* follow one another - the call is inside at most one UnderlyingHTTP.Do,
\* which is attempt number `attempt` + 1.
C13_AttemptsBounded ==
  \A g \in Callers :
    /\ nAttempts[g] <= client.retries + 1
    /\ pc[g] \in { "waitIfPaused", "newRequest" } => nAttempts[g] = loc[g].attempt
    /\ pc[g] \in { "do", "setPause" } => nAttempts[g] = loc[g].attempt + 1
    /\ pc[g] = "retrySleep"
         => nAttempts[g] = loc[g].attempt + 1 /\ loc[g].attempt < client.retries

\* C13 witness: a call that met a 429 and, on its last attempt, a transport
\* error has returned after R + 1 attempts.
C13_MixedFailures ==
  /\ server = Outcomes
  /\ pc[1] = "done"
  /\ pauseUntil > 0
  /\ result[1].err = "transport"
  /\ nAttempts[1] = client.retries + 1

\* C14 as stated: the setPause of a 429 whose parsed wait is w leaves
\* pauseUntil at the later of its old value and now + w, for every w >= 0,
\* and the call makes its next attempt no earlier than w after the 429.
C14_PauseSetToNowPlusWait ==
  [][ \A g \in Callers :
        /\ (pc[g] = "setPause" /\ pc'[g] /= "setPause")
             => /\ pauseUntil' = IF loc[g].asked > pauseUntil THEN loc[g].asked
                                 ELSE pauseUntil
                /\ pc'[g] = "retrySleep" => loc'[g].wake >= loc[g].asked
        /\ (pc[g] = "retrySleep" /\ pc'[g] /= "retrySleep")
             => now >= loc[g].wake ]_vars

\* The instant a 429 with parsed wait w, handled at time t, pauses the client
\* until: t + w for a positive w, t + 1s for w = 0.
C14_PauseEnd(asked, w) == IF w > 0 THEN asked ELSE asked + Second

\* C14: the setPause of a 429 whose parsed wait is w leaves pauseUntil at the
\* later of its old value and now + w when w > 0, and of its old value and
\* now + 1s when w = 0; the call makes its next attempt no earlier than w
\* after the 429.
C14_PauseSetToNowPlusWaitOrSecond ==
  [][ \A g \in Callers :
        /\ (pc[g] = "setPause" /\ pc'[g] /= "setPause")
             => /\ pauseUntil' =
                     IF C14_PauseEnd(loc[g].asked, loc[g].wait) > pauseUntil
                     THEN C14_PauseEnd(loc[g].asked, loc[g].wait)
                     ELSE pauseUntil
                /\ pc'[g] = "retrySleep" => loc'[g].wake >= loc[g].asked
        /\ (pc[g] = "retrySleep" /\ pc'[g] /= "retrySleep")
             => now >= loc[g].wake ]_vars

\* C14 witness: a call is inside setPause for a 429 with Retry-After: 0
\* while no later pause is in force.
C14_ZeroWait ==
  \E g \in Callers :
    /\ pc[g] = "setPause"
    /\ loc[g].wait = 0
    /\ loc[g].asked = now
    /\ pauseUntil <= now

\* A step in which goroutine g itself moves.
C15_Moves(g) == pc'[g] /= pc[g] \/ loc'[g] /= loc[g]

\* C15: inside waitIfPaused the attempt counter and the number of attempts
\* made stay as they are; waitIfPaused returns only from a check, made under
\* the mutex, that finds no pause set or now >= pauseUntil; a check that
\* finds now < pauseUntil - the first one, or one made on waking up after the
\* pause was extended - sleeps again until the pauseUntil it read; and with
\* no pause set the first check returns.
C15_PauseWaitedOutWithoutAttempt ==
  [][ \A g \in Callers :
        pc[g] = "waitIfPaused" =>
          /\ loc'[g].attempt = loc[g].attempt
          /\ nAttempts'[g] = nAttempts[g]
          /\ pc'[g] \in { "waitIfPaused", "newRequest" }
          /\ pc'[g] = "newRequest"
               => /\ pauseMu = Unlocked
                  /\ pauseUntil = 0 \/ now >= pauseUntil
                  /\ now >= loc[g].wake
          /\ (C15_Moves(g) /\ now < pauseUntil)
               => pc'[g] = "waitIfPaused" /\ loc'[g].wake = pauseUntil
          /\ (C15_Moves(g) /\ pauseUntil = 0) => pc'[g] = "newRequest" ]_vars

\* C15 witness: a goroutine wakes up in waitIfPaused at the end of the pause
\* it read, and the pause has been extended in the meantime.
C15_ExtendedWhileAsleep ==
  \E g \in Callers :
    /\ pc[g] = "waitIfPaused"
    /\ loc[g].wake > 0
    /\ now >= loc[g].wake
    /\ now < pauseUntil
    /\ pauseMu = Unlocked

\* C16 as stated, as far as it bears on single steps: once the context is
\* cancelled no call begins a sleep that takes time - neither a backoff
\* sleep, nor the sleep after a 429, nor a sleep for the shared pause - so
\* that nothing stands between the cancellation and the return of the call.
C16_CancelStopsCall ==
  [][ cancelled =>
        \A g \in Callers :
          /\ ~(pc[g] /= "retrySleep" /\ pc'[g] = "retrySleep" /\ loc'[g].wake > now)
          /\ ~(pc'[g] = "waitIfPaused" /\ loc'[g].wake > loc[g].wake
                 /\ loc'[g].wake > now) ]_vars

\* C17: a download whose target came with Data makes no client Get call: it
\* is never at the call, has never made one, and a target without Data is
\* written only after one.
C17_AttachedDataNotFetched ==
  \A k \in 1..Len(tasks) :
    /\ tasks[k].target.Data /= "nil"
         => /\ tasks[k].pc /= "get"
            /\ ~tasks[k].fetched
    /\ (tasks[k].target.Data = "nil" /\ tasks[k].written) => tasks[k].fetched

\* C17 witness: a dashboard selected by tags and so enumerated with its Data
\* has been written to the computed path without a Get call.
C17_CachedDashboardWritten ==
  /\ kind = "dashboards"
  /\ \E k \in 1..Len(tasks) :
       /\ tasks[k].target.Data /= "nil"
       /\ tasks[k].written
       /\ ~tasks[k].fetched
       /\ ComputedPath(tasks[k].target.ID) \in files

(***************************************************************************)
(* GetHTTPClient: the process-wide client behind a sync.Once.              *)
(***************************************************************************)

\* A Once that runs its function on every call.
OnceRunsAlways(state) == TRUE

\* sync.Once.Do runs the function when no call has run it yet.
OnceRuns(state) == state = "new"

\* A goroutine calls GetHTTPClient(settings).
GetCall(g) ==
  /\ getPc[g] = "idle"
  /\ got[g] = NoClient
  /\ \A h \in Callers : h < g => (getPc[h] /= "idle" \/ got[h] /= NoClient)
  /\ \E st \in SettingsValues : getArg' = [getArg EXCEPT ![g] = st]
  /\ getPc' = [getPc EXCEPT ![g] = "once"]
  /\ UNCHANGED << sharedOnce, sharedClient, constructed, got >>
  /\ UNCHANGED << clientVars, runVars, pageVars, enumVars, pureVars >>

\* sharedOnce.Do: the first goroutine starts to run the function; one that
\* comes while the function runs waits; one that comes later passes.
OnceDo(g) ==
  /\ getPc[g] = "once"
  /\ IF OnceRuns(sharedOnce)
     THEN /\ sharedOnce' = "running"
          /\ getPc' = [getPc EXCEPT ![g] = "init"]
     ELSE /\ sharedOnce = "done"
          /\ getPc' = [getPc EXCEPT ![g] = "return"]
          /\ UNCHANGED sharedOnce
  /\ UNCHANGED << sharedClient, constructed, getArg, got >>
  /\ UNCHANGED << clientVars, runVars, pageVars, enumVars, pureVars >>

\* The function of the Once: sharedClient = newClient(settings.APIKey,
\* settings.AppKey, defaultMaxConcurrency, defaultRetries,
\* settings.HTTPTimeout); then the Once is done.
OnceInit(g) ==
  /\ getPc[g] = "init"
  /\ constructed' = constructed + 1
  /\ sharedClient' = [ instance |-> constructed + 1,
                       APIKey |-> getArg[g].APIKey,
                       fields |-> newClient(defaultMaxConcurrency, defaultRetries,
                                            getArg[g].HTTPTimeout) ]
  /\ sharedOnce' = "done"
  /\ getPc' = [getPc EXCEPT ![g] = "return"]
  /\ UNCHANGED << getArg, got >>
  /\ UNCHANGED << clientVars, runVars, pageVars, enumVars, pureVars >>

\* return sharedClient
GetReturn(g) ==
  /\ getPc[g] = "return"
  /\ got' = [got EXCEPT ![g] = sharedClient]
  /\ getPc' = [getPc EXCEPT ![g] = "idle"]
  /\ UNCHANGED << sharedOnce, sharedClient, constructed, getArg >>
  /\ UNCHANGED << clientVars, runVars, pageVars, enumVars, pureVars >>

InitOnce ==
  /\ InitShared
  /\ InitNoRun
  /\ client = newClient(defaultMaxConcurrency, defaultRetries, 0)
  /\ server = {}
  /\ urls = { TRUE }
  /\ horizon = 0
  /\ pc = [g \in Callers |-> "idle"]

NextOnce ==
  \/ \E g \in Callers : GetCall(g)
  \/ \E g \in Callers : OnceDo(g)
  \/ \E g \in Callers : OnceInit(g)
  \/ \E g \in Callers : GetReturn(g)

SpecOnce == InitOnce /\ [][NextOnce]_vars

\* C18: newClient is run at most once for GetHTTPClient, and every
\* goroutine that has got a client from GetHTTPClient - whether it called
\* first, while the first call was at work, or later, and whatever settings
\* it passed - has got that one instance, built from the settings of the
\* goroutine that ran the Once.
C18_OneSharedClient ==
  /\ constructed <= 1
  /\ sharedClient /= NoClient => sharedClient.instance = 1
  /\ \A g \in Callers :
       /\ getPc[g] = "return" => sharedClient /= NoClient
       /\ got[g] /= NoClient => got[g] = sharedClient
       /\ \A h \in Callers :
            (got[g] /= NoClient /\ got[h] /= NoClient) => got[g] = got[h]

\* C18 witness: two goroutines that passed different settings hold the same
\* client, which a third one is about to be handed.
C18_SameInstanceForAll ==
  \E g, h \in Callers :
    /\ got[g] /= NoClient
    /\ got[g] = got[h]
    /\ getArg[g] /= getArg[h]
    /\ \E i \in Callers : getPc[i] = "return"

(***************************************************************************)
(* PaginationParams: the cursor of the list endpoints.                     *)
(***************************************************************************)

\* A NextOffsetPage that moves the cursor whatever it received.
NextOffsetPageAlwaysAdvances(p, itemsReceived) ==
  [ p |-> [p EXCEPT !.Start = p.Start + itemsReceived],
    more |-> ~(itemsReceived = 0 \/ itemsReceived < p.Count) ]

\* A NextOffsetPage that wants exactly a full page to go on.
NextOffsetPageExact(p, itemsReceived) ==
  IF itemsReceived /= p.Count THEN [ p |-> p, more |-> FALSE ]
  ELSE [ p |-> [p EXCEPT !.Start = p.Start + itemsReceived], more |-> TRUE ]

\* func (p *PaginationParams) NextOffsetPage(itemsReceived int) bool
NextOffsetPage(p, itemsReceived) ==
  IF itemsReceived = 0 \/ itemsReceived < p.Count
  THEN [ p |-> p, more |-> FALSE ]
  ELSE [ p |-> [p EXCEPT !.Start = p.Start + itemsReceived], more |-> TRUE ]

\* func (p *PaginationParams) NextPage(itemsReceived int) bool
NextPage(p, itemsReceived) ==
  IF itemsReceived = 0 \/ itemsReceived < p.PageSize
  THEN [ p |-> p, more |-> FALSE ]
  ELSE [ p |-> [p EXCEPT !.Page = p.Page + 1], more |-> TRUE ]

\* The page sizes, any int in the code, and the numbers of items a call may
\* be given.
PageSizes == (-1)..MaxPageSize
ItemCounts == 0..(MaxPageSize + 1)

\* p.NextOffsetPage(itemsReceived) is called.
CallNextOffsetPage ==
  /\ params.Start < MaxCursor
  /\ \E n \in ItemCounts :
       LET r == NextOffsetPage(params, n)
       IN  /\ params' = r.p
           /\ paged' = [ method |-> "NextOffsetPage", before |-> params,
                         itemsReceived |-> n, more |-> r.more ]
  /\ UNCHANGED << clientVars, runVars, onceVars, enumVars, pureVars >>

\* p.NextPage(itemsReceived) is called.
CallNextPage ==
  /\ params.Page < MaxCursor
  /\ \E n \in ItemCounts :
       LET r == NextPage(params, n)
       IN  /\ params' = r.p
           /\ paged' = [ method |-> "NextPage", before |-> params,
                         itemsReceived |-> n, more |-> r.more ]
  /\ UNCHANGED << clientVars, runVars, onceVars, enumVars, pureVars >>

InitPages ==
  /\ \E n \in PageSizes : params \in { NewOffsetPagination(n), NewPagePagination(n) }
  /\ paged = NoPaged
  /\ InitShared
  /\ InitNoGet
  /\ InitNoPure
  /\ InitNoEnum
  /\ InitNoDownload
  /\ client = newClient(defaultMaxConcurrency, defaultRetries, 0)
  /\ server = {}
  /\ urls = { TRUE }
  /\ horizon = 0
  /\ pc = [g \in Callers |-> "idle"]

NextPages == CallNextOffsetPage \/ CallNextPage

SpecPages == InitPages /\ [][NextPages]_vars

\* C19: NextOffsetPage and NextPage return false and leave the params as
\* they were when itemsReceived is 0 or less than the page size; otherwise
\* they return true, with Start increased by itemsReceived, respectively Page
\* increased by one, and nothing else changed.
C19_ShortPageStops ==
  LET b == paged.before
      n == paged.itemsReceived
  IN  /\ paged.method = "NextOffsetPage" =>
           IF n = 0 \/ n < b.Count
           THEN ~paged.more /\ params = b
           ELSE /\ paged.more
                /\ params.Start = b.Start + n
                /\ params.Count = b.Count /\ params.Page = b.Page
                /\ params.PageSize = b.PageSize
      /\ paged.method = "NextPage" =>
           IF n = 0 \/ n < b.PageSize
           THEN ~paged.more /\ params = b
           ELSE /\ paged.more
                /\ params.Page = b.Page + 1
                /\ params.Start = b.Start /\ params.Count = b.Count
                /\ params.PageSize = b.PageSize

\* C19 witness: after full pages had moved the cursor, a short page has
\* stopped NextOffsetPage and left the cursor where it was.
C19_ShortPageAfterFullOnes ==
  /\ paged.method = "NextOffsetPage"
  /\ ~paged.more
  /\ paged.itemsReceived > 0
  /\ paged.itemsReceived < params.Count
  /\ params.Start >= 2 * params.Count
  /\ params = paged.before

\* C20 as stated: NextOffsetPage reports more if and only if itemsReceived
\* is equal to Count, for every itemsReceived >= 0 and every Count.
C20_MoreIffFullPage ==
  paged.method = "NextOffsetPage" =>
    (paged.more <=> paged.itemsReceived = paged.before.Count)

\* C20: NextOffsetPage reports more if and only if itemsReceived is not 0
\* and not less than Count; when Count >= 1 and no more than Count items
\* came back, that is if and only if itemsReceived is equal to Count.
C20_MoreIffNonEmptyFullPage ==
  paged.method = "NextOffsetPage" =>
    LET n == paged.itemsReceived
        c == paged.before.Count
    IN  /\ paged.more <=> (n /= 0 /\ n >= c)
        /\ (c >= 1 /\ n <= c) => (paged.more <=> n = c)
        /\ ~paged.more <=> (n = 0 \/ n < c)

\* C20 witness: NextOffsetPage was handed more items than Count and reported
\* more.
C20_MoreThanAsked ==
  /\ paged.method = "NextOffsetPage"
  /\ paged.before.Count >= 1
  /\ paged.itemsReceived > paged.before.Count
  /\ paged.more
  /\ params.Start = paged.before.Start + paged.itemsReceived

(***************************************************************************)
(* Tags and the tag matchers (templating/tags.go).                         *)
(***************************************************************************)
\* strings.SplitN(s, ":", 2) cuts at the first colon: its index, or 0.
IndexOf(s, c) ==
  IF \E i \in 1..Len(s) : s[i] = c
  THEN CHOOSE i \in 1..Len(s) : s[i] = c /\ \A j \in 1..(i - 1) : s[j] /= c
  ELSE 0

\* m[k] = v on a Go map, and m[k] read from it ("" when k is missing).
MapSet(m, k, v) == [x \in (DOMAIN m) \cup {k} |-> IF x = k THEN v ELSE m[x]]
MapGet(m, k) == IF k \in DOMAIN m THEN m[k] ELSE <<>>

\* ExtractTagMap(raw, false): every tag with a colon sets tagMap[key] = value,
\* key and value trimmed; a later tag of the same key overwrites.
RECURSIVE ExtractLoop(_, _)
ExtractLoop(raw, tagMap) ==
  IF raw = <<>> THEN tagMap
  ELSE LET t == Head(raw)
           i == IndexOf(t, ":")
       IN  IF i = 0 THEN ExtractLoop(Tail(raw), tagMap)
           ELSE ExtractLoop(Tail(raw),
                            MapSet(tagMap, TrimSpace(SubSeq(t, 1, i - 1)),
                                   TrimSpace(SubSeq(t, i + 1, Len(t)))))

ExtractTagMap(raw) == ExtractLoop(raw, << >>)

\* HasAllTagsMap(tags, filterTags)
HasAllTagsMap(tags, filterTags) ==
  IF Len(filterTags) = 0 THEN TRUE
  ELSE \A w \in 1..Len(filterTags) :
         \E k \in DOMAIN tags :
           ToLower(k \o <<":">> \o tags[k]) = ToLower(filterTags[w])

\* A matcher that compares the tags as they are written.
HasAllTagsSliceExact(dashboardTags, filterTags) ==
  \A w \in 1..Len(filterTags) :
    filterTags[w] \in { dashboardTags[i] : i \in 1..Len(dashboardTags) }

\* A matcher that is content with one of the filter tags.
HasAnyTagSlice(dashboardTags, filterTags) ==
  \E w \in 1..Len(filterTags) :
    ToLower(filterTags[w]) \in { ToLower(dashboardTags[i]) : i \in 1..Len(dashboardTags) }

\* HasAllTagsSlice(dashboardTags, filterTags)
HasAllTagsSlice(dashboardTags, filterTags) ==
  IF Len(filterTags) = 0 THEN TRUE
  ELSE LET set == { ToLower(dashboardTags[i]) : i \in 1..Len(dashboardTags) }
       IN  \A w \in 1..Len(filterTags) : ToLower(filterTags[w]) \in set

teamKey == << "t", "e", "a", "m" >>

\* filterTags of GenerateDashboardTargets: team:<Team>, then the parsed --tags.
DashboardFilterTags(o) ==
  (IF o.Team /= <<>> THEN << teamKey \o <<":">> \o o.Team >> ELSE <<>>)
    \o ParseCommaSeparatedIDs(o.Tags)

\* filterTags of GenerateMonitorTargets: the parts of --tags, trimmed.
MonitorFilterTags(o) == [i \in 1..Len(o.Tags) |-> TrimSpace(o.Tags[i])]

\* ids of GenerateMonitorTargets: every part of --id scanned as an integer.
MonitorIDs(o) == [i \in 1..Len(o.IDs) |-> SscanfInt(TrimSpace(o.IDs[i])).id]

\* The body of the loop over allMonitors: whether mon is yielded.
MonitorSelected(mon, o) ==
  LET ids == MonitorIDs(o)
      filterTags == MonitorFilterTags(o)
      tags == ExtractTagMap(mon.tags)
  IN  /\ Len(ids) > 0 => \E i \in 1..Len(ids) : ids[i] = mon.id
      /\ ~(o.Team /= <<>> /\ MapGet(tags, teamKey) /= o.Team)
      /\ ~(Len(filterTags) > 0 /\ ~HasAllTagsMap(tags, filterTags))
      /\ o.Priority > 0 => mon.priority = o.Priority

(***************************************************************************)
(* The enumerators step by step: GenerateDashboardTargets with              *)
(* fetchAndFilterDashboards, and GenerateMonitorTargets, each with the      *)
(* receive loop that consumes its channel.                                  *)
(***************************************************************************)
tagTeamA == << "t", "e", "a", "m", ":", "A" >>
tagAB == << "a", ":", "b" >>
idAUpper == << "A", "-", "b", "-", "c" >>

\* What the remote listings may hold: dashboards (one of them without an id)
\* and monitors, each with the JSON document the API serves for it.
DashboardItems ==
  { [ id |-> idA, tags |-> << tagTeamA, tagAB >>, doc |-> "dashboard a-b-c" ],
    [ id |-> ToLower(idB), tags |-> << tagAB >>, doc |-> "dashboard b-a-1" ],
    [ id |-> <<>>, tags |-> <<>>, doc |-> "dashboard without id" ] }

MonitorItems ==
  { [ id |-> 1, tags |-> << ToLower(tagTeamA) >>, priority |-> 1, doc |-> "monitor 1" ],
    [ id |-> 2, tags |-> << tagAB >>, priority |-> 0, doc |-> "monitor 2" ] }

Listings(items) == UNION { [1..n -> items] : n \in 0..MaxRemote }

\* The selections an enumerator is followed with.
EnumDashboardIDLists ==
  { << idA >>, << idA, idAUpper >>, << idBad, idA >>, << idB, idBad, idA >>,
    << <<" ">> \o idA, <<>>, idA >> }

EnumMonitorIDLists ==
  { << <<"1">> >>, << <<"2">>, <<"1">> >>, << <<"1">>, <<"x">> >>, << <<"x">>, <<"2">> >> }

EnumFilters ==
  { [NoOpts EXCEPT !.Team = <<"a">>],
    [NoOpts EXCEPT !.Tags = << tagAB >>],
    [NoOpts EXCEPT !.Tags = << tagAB, <<" ">> \o ToLower(tagTeamA) >>],
    [NoOpts EXCEPT !.Team = <<"A">>],
    [NoOpts EXCEPT !.Tags = << tagTeamA >>] }

PageSizesOfSettings == 1..MaxListPageSize

\* What a client.Get and the decoding of its body can come to.
GetOutcomes == { "ok", "error", "status", "decode" }

\* The page the listing endpoint serves for a cursor: count items from start
\* (dashboards), page_size items of page number page (monitors).
PageOf(items, from, size) ==
  LET to == IF from + size < Len(items) THEN from + size ELSE Len(items)
  IN  IF from >= Len(items) THEN <<>> ELSE SubSeq(items, from + 1, to)

\* for _, dashboard := range result.Dashboards: the non-empty ids.
RECURSIVE DashboardIDs(_)
DashboardIDs(page) ==
  IF page = <<>> THEN <<>>
  ELSE (IF Head(page).id /= <<>> THEN << Head(page).id >> ELSE <<>>)
         \o DashboardIDs(Tail(page))

\* A loop that takes every page for the last one.
LastPageAlways(n, size) == TRUE

\* The two breaks of a pagination loop: an empty page, a short page.
LastPage(n, size) == n = 0 \/ n < size

\* A yield that attaches nothing.
MonitorDataNone(mon) == "nil"

\* Data: mon
MonitorData(mon) == mon.doc

\* The loop over allMonitors: one target per yielded monitor, with the
\* listed monitor as Data.
RECURSIVE MonitorTargets(_, _)
MonitorTargets(all, o) ==
  IF all = <<>> THEN <<>>
  ELSE (IF MonitorSelected(Head(all), o)
        THEN << OkResult(Target(Head(all).id, NoPath, MonitorData(Head(all)))) >>
        ELSE <<>>) \o MonitorTargets(Tail(all), o)

Range(q) == { q[i] : i \in 1..Len(q) }

\* dashboards[id] = data
MapPut(m, id, data) == { e \in m : e.id /= id } \cup { [ id |-> id, data |-> data ] }

\* for id, data := range dashboards: one target per entry of the map.
MapTargets(m) == SetToSeq({ OkResult(Target(e.id, NoPath, e.data)) : e \in m })

\* The dashboard the detail endpoint serves for an id.
DetailOf(id) == CHOOSE d \in DashboardItems : d.id = id

\* A detail loop that stops at the first candidate it cannot fetch.
NextCandidateStops(i, n, outcome) == IF outcome = "ok" THEN i + 1 ELSE n + 1

\* continue, or the end of the loop body: on to the next candidate.
NextCandidate(i, n, outcome) == i + 1

\* A listing that ends without a word when a page cannot be fetched.
ListFailureSilent(k, all) == <<>>

\* return nil, err out of the pagination loop, then out <- ...{Err: ...};
\* return: what was collected from earlier pages is dropped.
ListFailure(k, all) == << ErrResult(k, "failed to fetch") >>

\* An enumerator is about to be called; nothing else runs.
InitEnumCall ==
  /\ InitShared
  /\ InitNoGet
  /\ InitNoPure
  /\ InitNoPages
  /\ InitNoDownload
  /\ client = newClient(defaultMaxConcurrency, defaultRetries, 0)
  /\ server = {}
  /\ urls = { TRUE }
  /\ horizon = 0
  /\ pc = [g \in Callers |-> "idle"]
  /\ ePc = "start"
  /\ eCursor = 0
  /\ eAll = <<>>
  /\ eNext = 1
  /\ eMap = {}
  /\ eDetailOK = {}
  /\ eListErr = FALSE
  /\ eTodo = <<>>
  /\ eOrdered = TRUE
  /\ eOut = <<>>
  /\ eGets = [ list |-> 0, detail |-> 0 ]
  /\ eCloses = 0

InitEnum ==
  /\ InitEnumCall
  /\ eKind \in { "dashboards", "monitors" }
  /\ \/ /\ eOpts \in { NoOpts, [NoOpts EXCEPT !.Update = TRUE] }
        /\ remote = <<>>
        /\ ePageSize = 1
        /\ local \in { [ err |-> TRUE, ids |-> {} ] }
                       \cup { [ err |-> FALSE, ids |-> S ] :
                              S \in IF eKind = "dashboards" THEN ScannedDashboards
                                    ELSE ScannedMonitors }
     \/ /\ eKind = "dashboards"
        /\ eOpts \in { [NoOpts EXCEPT !.IDs = l] : l \in EnumDashboardIDLists }
        /\ remote = <<>>
        /\ ePageSize = 1
        /\ local = [ err |-> FALSE, ids |-> {} ]
     \/ /\ eKind = "monitors"
        /\ eOpts \in { [NoOpts EXCEPT !.IDs = l] : l \in EnumMonitorIDLists }
                       \cup { [NoOpts EXCEPT !.All = TRUE, !.Priority = 1] }
        /\ remote \in Listings(MonitorItems)
        /\ ePageSize \in PageSizesOfSettings
        /\ local = [ err |-> FALSE, ids |-> {} ]
     \/ /\ eOpts \in { [NoOpts EXCEPT !.All = TRUE] } \cup EnumFilters
        /\ remote \in Listings(IF eKind = "dashboards" THEN DashboardItems
                               ELSE MonitorItems)
        /\ ePageSize \in PageSizesOfSettings
        /\ local = [ err |-> FALSE, ids |-> {} ]
  /\ faults = TRUE

\* GenerateDashboardTargets / GenerateMonitorTargets up to the return of the
\* channel: an error and no channel, or the goroutine is started.
EnumStart ==
  /\ ePc = "start"
  /\ LET g == IF eKind = "dashboards" THEN GenerateDashboardTargets(eOpts, TRUE)
              ELSE GenerateMonitorTargets(eOpts, TRUE)
     IN  IF g.err
         THEN /\ ePc' = "failed"
              /\ eCloses' = eCloses + 1
              /\ UNCHANGED eTodo
         ELSE /\ ePc' = CASE g.job = "scan" -> "scan"
                          [] g.job = "send" -> "send"
                          [] OTHER -> "list"
              /\ eTodo' = g.todo
              /\ UNCHANGED eCloses
  /\ UNCHANGED << eKind, eOpts, ePageSize, remote, local, faults, eCursor, eAll, eNext,
                  eMap, eDetailOK, eListErr, eOrdered, eOut, eGets >>
  /\ UNCHANGED << clientVars, runVars, onceVars, pageVars, pureVars >>

\* --update: ExtractIDsFromJSONFiles / ExtractIntIDsFromJSONFiles, then one
\* target per entry of idToPath, or the one error result.
EnumScan ==
  /\ ePc = "scan"
  /\ eTodo' = IF local.err THEN << ErrResult(eKind, "failed to scan directory") >>
              ELSE SetToSeq({ OkResult(Target(id, ScannedPath(id), "nil")) :
                              id \in local.ids })
  /\ eOrdered' = FALSE
  /\ ePc' = "send"
  /\ UNCHANGED << eCloses, eKind, eOpts, ePageSize, remote, local, faults, eCursor, eAll, eNext,
                  eMap, eDetailOK, eListErr, eOut, eGets >>
  /\ UNCHANGED << clientVars, runVars, onceVars, pageVars, pureVars >>

\* One turn of the pagination loop: the request of a page, and, when the
\* loop is left, what follows it up to the first send or detail request.
EnumListPage ==
  /\ ePc = "list"
  /\ eGets' = [eGets EXCEPT !.list = @ + 1]
  /\ \E outcome \in (IF faults THEN GetOutcomes ELSE { "ok" }) :
       IF outcome /= "ok"
       THEN /\ eTodo' = ListFailure(eKind, eAll)
            /\ eOrdered' = TRUE
            /\ eListErr' = TRUE
            /\ ePc' = "send"
            /\ UNCHANGED << eCursor, eAll >>
       ELSE LET from == IF eKind = "dashboards" THEN eCursor ELSE eCursor * ePageSize
                page == PageOf(remote, from, ePageSize)
                n == Len(page)
                all == IF n = 0 THEN eAll
                       ELSE IF eKind = "dashboards" THEN eAll \o DashboardIDs(page)
                       ELSE eAll \o page
                filterTags == DashboardFilterTags(eOpts)
            IN  /\ eAll' = all
                /\ UNCHANGED eListErr
                /\ IF ~LastPage(n, ePageSize)
                   THEN /\ eCursor' = IF eKind = "dashboards" THEN eCursor + n
                                      ELSE eCursor + 1
                        /\ UNCHANGED << ePc, eTodo, eOrdered >>
                   ELSE /\ UNCHANGED eCursor
                        /\ IF eKind = "monitors"
                           THEN /\ eTodo' = MonitorTargets(all, eOpts)
                                /\ eOrdered' = TRUE
                                /\ ePc' = "send"
                           ELSE IF Len(filterTags) = 0
                           THEN /\ eTodo' = SetToSeq({ OkResult(Target(id, NoPath, "nil")) :
                                                       id \in Range(all) })
                                /\ eOrdered' = FALSE
                                /\ ePc' = "send"
                           ELSE IF all = <<>>
                           THEN /\ eTodo' = <<>>
                                /\ eOrdered' = FALSE
                                /\ ePc' = "send"
                           ELSE /\ ePc' = "detail"
                                /\ UNCHANGED << eTodo, eOrdered >>
  /\ UNCHANGED << eCloses, eKind, eOpts, ePageSize, remote, local, faults, eNext, eMap,
                  eDetailOK, eOut >>
  /\ UNCHANGED << clientVars, runVars, onceVars, pageVars, pureVars >>

\* One turn of the loop over allDashboardIDs: the detail request of a
\* candidate, its tags checked against filterTags; after the last candidate
\* the map is returned and ranged over.
EnumDetail ==
  /\ ePc = "detail"
  /\ eGets' = [eGets EXCEPT !.detail = @ + 1]
  /\ \E outcome \in GetOutcomes :
       LET id == eAll[eNext]
           d == DetailOf(id)
           m == IF outcome = "ok" /\ HasAllTagsSlice(d.tags, DashboardFilterTags(eOpts))
                THEN MapPut(eMap, id, d.doc)
                ELSE eMap
           next == NextCandidate(eNext, Len(eAll), outcome)
       IN  /\ eMap' = m
           /\ eDetailOK' = IF outcome = "ok" THEN eDetailOK \cup { id } ELSE eDetailOK
           /\ eNext' = next
           /\ IF next <= Len(eAll)
              THEN UNCHANGED << ePc, eTodo, eOrdered >>
              ELSE /\ eTodo' = MapTargets(m)
                   /\ eOrdered' = FALSE
                   /\ ePc' = "send"
  /\ UNCHANGED << eCloses, eKind, eOpts, ePageSize, remote, local, faults, eCursor, eAll,
                  eListErr, eOut >>
  /\ UNCHANGED << clientVars, runVars, onceVars, pageVars, pureVars >>

\* out <- result meets the receive of the consumer's range loop.
EnumSend ==
  /\ ePc = "send"
  /\ \E i \in 1..Len(eTodo) :
       /\ eOrdered => i = 1
       /\ eOut' = Append(eOut, eTodo[i])
       /\ eTodo' = Remove(eTodo, i)
  /\ UNCHANGED << eCloses, eKind, eOpts, ePageSize, remote, local, faults, ePc, eCursor, eAll,
                  eNext, eMap, eDetailOK, eListErr, eOrdered, eGets >>
  /\ UNCHANGED << clientVars, runVars, onceVars, pageVars, pureVars >>

\* A goroutine that returns without closing out.
DeferredCloseMissing(n) == n

\* defer close(out)
DeferredClose(n) == n + 1

\* The goroutine returns with nothing left to send: defer close(out).
EnumClose ==
  /\ ePc = "send"
  /\ eTodo = <<>>
  /\ ePc' = "closed"
  /\ eCloses' = DeferredClose(eCloses)
  /\ UNCHANGED << eKind, eOpts, ePageSize, remote, local, faults, eCursor, eAll, eNext,
                  eMap, eDetailOK, eListErr, eTodo, eOrdered, eOut, eGets >>
  /\ UNCHANGED << clientVars, runVars, onceVars, pageVars, pureVars >>

NextEnum ==
  \/ EnumStart
  \/ EnumScan
  \/ EnumListPage
  \/ EnumDetail
  \/ EnumSend
  \/ EnumClose

SpecEnum == InitEnum /\ [][NextEnum]_vars

\* --all against a listing endpoint that answers every request and honours
\* the cursor; every step that can be taken is taken in the end.
InitListing ==
  /\ InitEnumCall
  /\ eKind \in { "dashboards", "monitors" }
  /\ eOpts = [NoOpts EXCEPT !.All = TRUE]
  /\ remote \in Listings(IF eKind = "dashboards" THEN DashboardItems ELSE MonitorItems)
  /\ ePageSize \in PageSizesOfSettings
  /\ local = [ err |-> FALSE, ids |-> {} ]
  /\ faults = FALSE

NextListing ==
  \/ EnumStart
  \/ EnumListPage
  \/ EnumSend
  \/ EnumClose

SpecListing == InitListing /\ [][NextListing]_vars /\ WF_vars(NextListing)

Stream == eOut \o eTodo

IsErrorOnly(r) == r.Err /= "nil" /\ r.Target = Target(ZeroID(eKind), NoPath, "nil")

\* C22: dashboards selected by --id: the stream holds one result per
\* identifier of the list, in order: for a malformed identifier a result
\* carrying only the error, after which the remaining identifiers follow;
\* for a well-formed one a target with the identifier in lower case, an
\* empty Path and no Data.
C22_OneResultPerDashboardID ==
  (eKind = "dashboards" /\ eOpts.IDs /= <<>> /\ ePc /= "start") =>
    LET ids == ParseCommaSeparatedIDs(eOpts.IDs)
        lower(id) == CASE id = idA -> idA
                       [] id = idAUpper -> idA
                       [] id = idB -> << "b", "-", "a", "-", "1" >>
    IN  /\ ePc \in { "send", "closed" }
        /\ Len(Stream) = Len(ids)
        /\ \A i \in 1..Len(ids) :
             IF ids[i] = idBad THEN IsErrorOnly(Stream[i])
             ELSE Stream[i] = OkResult(Target(lower(ids[i]), NoPath, "nil"))

\* C22 witness: an identifier typed with an upper-case letter, a malformed
\* one and a third one have all been received, in this order.
C22_MalformedBetweenWellFormed ==
  /\ eKind = "dashboards"
  /\ eOpts.IDs = << idB, idBad, idA >>
  /\ ePc = "closed"
  /\ Len(eOut) = 3
  /\ eOut[1].Target.ID /= idB
  /\ eOut[2].Err /= "nil"
  /\ eOut[3].Target.ID = idA

\* A part of --id that is a number: digits only, once trimmed.
IsNumber(part) ==
  LET t == TrimSpace(part) IN t /= <<>> /\ \A i \in 1..Len(t) : t[i] \in Digits

Targets(q) == { i \in 1..Len(q) : q[i].Err = "nil" }

\* C23 as stated: monitors selected by --id: a malformed identifier of the
\* list yields a result carrying only the error, and the well-formed
\* identifiers of the list are still enumerated.
C23_MalformedMonitorIDReported ==
  LET parts == eOpts.IDs
      bad == { i \in 1..Len(parts) : ~IsNumber(parts[i]) }
      good == { DigitsVal(TrimSpace(parts[i]), 0) : i \in (1..Len(parts)) \ bad }
  IN  (eKind = "monitors" /\ bad /= {} /\ ePc /= "start") =>
        /\ ePc /= "failed"
        /\ (ePc = "closed" /\ ~eListErr) =>
             /\ Cardinality({ i \in 1..Len(eOut) : IsErrorOnly(eOut[i]) })
                  = Cardinality(bad)
             /\ \A m \in good :
                  (\E k \in 1..Len(remote) : remote[k].id = m) =>
                    \E i \in Targets(eOut) : eOut[i].Target.ID = m

\* C24 as stated: enumerating by explicit identifiers makes no client.Get
\* call, for dashboards and for monitors, and every well-formed identifier of
\* the list is sent as a target.
C24_NoGetForExplicitIDs ==
  (eOpts.IDs /= <<>> /\ ePc /= "failed") =>
    /\ eGets.list = 0
    /\ eGets.detail = 0
    /\ ePc = "closed" =>
         IF eKind = "dashboards"
         THEN \A i \in 1..Len(eOpts.IDs) :
                LET id == TrimSpace(eOpts.IDs[i])
                IN  id \in { idA, idAUpper, idB } =>
                      \E k \in Targets(eOut) : eOut[k].Target.ID = ToLower(id)
         ELSE \A i \in 1..Len(eOpts.IDs) :
                IsNumber(eOpts.IDs[i]) =>
                  \E k \in Targets(eOut) :
                    eOut[k].Target.ID = DigitsVal(TrimSpace(eOpts.IDs[i]), 0)

\* The identifier a target is known by: a dashboard id in lower case, a
\* monitor id as it is.
Normalized(id) == IF eKind = "dashboards" THEN ToLower(id) ELSE id

\* C29 as stated: in no selection variant are two targets with the same
\* normalized identifier sent, and with --all no listed identifier is left
\* out.
C29_EachIdentifierOnce ==
  /\ \A i, j \in Targets(eOut) :
       i /= j => Normalized(eOut[i].Target.ID) /= Normalized(eOut[j].Target.ID)
  /\ (ePc = "closed" /\ ~eListErr /\ eOpts = [NoOpts EXCEPT !.All = TRUE]) =>
       \A k \in 1..Len(remote) :
         remote[k].id /= <<>> =>
           \E i \in Targets(eOut) : eOut[i].Target.ID = remote[k].id

\* C30 as stated: with --all or a tag/team filter the enumerator never holds
\* the whole result set before the first target is sent: no state has
\* several targets collected and none received yet.
C30_FirstTargetBeforeCollectionEnds ==
  (eOpts.All \/ eOpts.Team /= <<>> \/ eOpts.Tags /= <<>>) =>
    ~( /\ ePc = "send"
       /\ eOut = <<>>
       /\ Cardinality(Targets(eTodo)) > 1
       /\ eGets.list + eGets.detail > 1 )

\* --all and nothing else, listed without a failing request, stream closed.
AllListed == eOpts = [NoOpts EXCEPT !.All = TRUE] /\ ePc = "closed" /\ ~eListErr

Filtering ==
  /\ eKind = "dashboards"
  /\ eOpts \in EnumFilters
  /\ ~eListErr

\* The constraints of the selection, in lower case, and the dashboards whose
\* tags, in lower case, hold all of them.
Required ==
  (IF eOpts.Team /= <<>> THEN { ToLower(teamKey \o <<":">> \o eOpts.Team) } ELSE {})
    \cup ({ ToLower(TrimSpace(eOpts.Tags[i])) : i \in 1..Len(eOpts.Tags) } \ { <<>> })

Satisfying ==
  { d \in DashboardItems : Required \subseteq { ToLower(d.tags[i]) : i \in 1..Len(d.tags) } }

\* C26: dashboards selected by tags or team: once the stream is closed, the
\* targets sent are exactly the listed candidates for which a detail fetch
\* succeeded and whose tags hold every constraint, letter case ignored, each
\* once, with an empty Path and the fetched dashboard as Data.
C26_FilterEmitsMatching ==
  (Filtering /\ ePc = "closed") =>
    LET matching == { id \in Range(eAll) : id \in eDetailOK /\ DetailOf(id) \in Satisfying }
    IN  /\ Len(eOut) = Cardinality(matching)
        /\ \A id \in matching :
             \E i \in 1..Len(eOut) :
               /\ eOut[i] = OkResult(Target(id, NoPath, DetailOf(id).doc))
               /\ eOut[i].Target.Data /= "nil"

\* C26 witness: two candidates were fetched, both hold one of the two
\* constraints, and only the one that holds both was sent.
C26_OneOfTwoMatches ==
  /\ Filtering
  /\ ePc = "closed"
  /\ Cardinality(Required) = 2
  /\ Cardinality(eDetailOK) = 2
  /\ Len(eOut) = 1
  /\ eOut[1].Target.ID = idA

\* C27: dashboards selected by tags or team: a candidate whose detail fetch
\* fails is passed over: no error result is ever on the stream, every
\* candidate is fetched whatever became of the ones before it, every
\* candidate fetched and matching is sent, and when none matches the stream
\* is closed with nothing sent.
C27_FailedCandidateSkipped ==
  Filtering =>
    /\ \A i \in 1..Len(Stream) : Stream[i].Err = "nil"
    /\ ePc = "closed" =>
         /\ eGets.detail = Len(eAll)
         /\ \A k \in 1..Len(eAll) :
              (eAll[k] \in eDetailOK /\ DetailOf(eAll[k]) \in Satisfying) =>
                \E i \in 1..Len(eOut) : eOut[i].Target.ID = eAll[k]
         /\ (\A k \in 1..Len(eAll) :
               eAll[k] \notin eDetailOK \/ DetailOf(eAll[k]) \notin Satisfying) =>
              eOut = <<>>

\* C27 witness: the fetch of the first candidate failed and the second
\* candidate was sent all the same.
C27_SentAfterFailedFetch ==
  /\ Filtering
  /\ ePc = "closed"
  /\ Len(eAll) = 2
  /\ eAll[1] \notin eDetailOK
  /\ Len(eOut) = 1
  /\ eOut[1].Target.ID = eAll[2]

\* A download command run with --update whose scan has succeeded.
Updating ==
  /\ opts.Update
  /\ pcProd \in { "send", "closed" }
  /\ \A i \in 1..Len(todo) : todo[i].Err = "nil"
  /\ enumErrs = {}

\* C28: with --update the enumerator makes no client.Get call and hands over
\* one target per scanned identifier, carrying the path of the scanned file;
\* a download of such a target never resolves the path template, and what it
\* writes it writes to that path.
C28_UpdateKeepsScannedPaths ==
  /\ opts.Update => ~enumFetched
  /\ Updating =>
       /\ Len(todo) + Len(tasks) = Cardinality(scannedIDs)
       /\ \A id \in scannedIDs :
            \/ \E i \in 1..Len(todo) : todo[i].Target = Target(id, ScannedPath(id), "nil")
            \/ \E k \in 1..Len(tasks) :
                 /\ tasks[k].target.Path = ScannedPath(id)
                 /\ ~tasks[k].templated
                 /\ tasks[k].written <=> ScannedPath(id) \in files
       /\ \A f \in files : \E id \in scannedIDs : f = ScannedPath(id)

\* C28 witness: the dashboard found by the scan was fetched and written to
\* the path of the scanned file.
C28_WrittenToScannedPath ==
  /\ Updating
  /\ kind = "dashboards"
  /\ scannedIDs = { idA, idBad }
  /\ files = { ScannedPath(idA) }
  /\ \E k \in 1..Len(tasks) : tasks[k].fetched /\ tasks[k].written


(***************************************************************************)
(* Functions called on their own: backoffDuration, newClient and the tag   *)
(* matchers, each applied once to arguments drawn from a bounded set.      *)
(***************************************************************************)
tagAC == << "a", ":", "c" >>
tagABUpperKey == << "A", ":", "b" >>
tagABSpaced == << " " >> \o tagAB
filterTeamA == ToLower(tagTeamA)
filterAB == << "a", ":", "B" >>

\* Tags a resource may hold, and the constraints a filter may ask for.
PureTags == { tagTeamA, ToLower(tagTeamA), tagAB, tagABUpperKey, tagAC, tagABSpaced }
PureFilterTags == { filterTeamA, filterAB, tagAC }

\* A timeout that is negative, unset, 10s or 30s.
PureTimeouts == { 0 - Second, 0, 10 * Second, 30 * Second }

PureCalls ==
  { [NoCall EXCEPT !.fn = "backoffDuration", !.attempt = a] : a \in 0..MaxAttempt }
    \cup { [NoCall EXCEPT !.fn = "newClient", !.maxConcurrent = m, !.retries = r,
                          !.timeout = t] :
           m \in (-1)..MaxArg, r \in (-1)..MaxArg, t \in PureTimeouts }
    \cup { [NoCall EXCEPT !.fn = "HasAllTags", !.raw = raw, !.filterTags = f] :
           raw \in UNION { [1..n -> PureTags] : n \in 0..MaxTags },
           f \in UNION { [1..n -> PureFilterTags] : n \in 0..MaxFilterTags } }

InitPure ==
  /\ InitShared
  /\ InitNoPages
  /\ InitNoEnum
  /\ InitNoDownload
  /\ sharedOnce = "new"
  /\ sharedClient = NoClient
  /\ constructed = 0
  /\ getPc = [g \in Callers |-> "idle"]
  /\ getArg = [g \in Callers |-> CHOOSE x \in SettingsValues : TRUE]
  /\ got = [g \in Callers |-> NoClient]
  /\ client = newClient(defaultMaxConcurrency, defaultRetries, 0)
  /\ server = {}
  /\ urls = { TRUE }
  /\ horizon = 0
  /\ pc = [g \in Callers |-> "idle"]
  /\ pureCall \in PureCalls
  /\ pureRet = NoRet

\* delete(m, k)
MapDelete(m, k) == [x \in (DOMAIN m) \ {k} |-> m[x]]

\* backoffDuration(attempt)
CallBackoffDuration ==
  /\ pureCall.fn = "backoffDuration"
  /\ ~pureRet.done
  /\ pureRet' = [NoRet EXCEPT !.done = TRUE, !.d = backoffDuration(pureCall.attempt)]
  /\ UNCHANGED pureCall
  /\ UNCHANGED << clientVars, runVars, onceVars, pageVars, enumVars >>

\* newClient(apiKey, appKey, maxConcurrent, retries, timeout)
CallNewClient ==
  /\ pureCall.fn = "newClient"
  /\ ~pureRet.done
  /\ pureRet' = [NoRet EXCEPT !.done = TRUE,
                              !.c = newClient(pureCall.maxConcurrent, pureCall.retries,
                                              pureCall.timeout)]
  /\ UNCHANGED pureCall
  /\ UNCHANGED << clientVars, runVars, onceVars, pageVars, enumVars >>

\* The two matchers on the same tags: HasAllTagsSlice on the raw list, as
\* for a dashboard, and HasAllTagsMap on ExtractTagMap(raw, false), as for a
\* monitor; then each of them again with one tag taken away.
CallHasAllTags ==
  /\ pureCall.fn = "HasAllTags"
  /\ ~pureRet.done
  /\ LET raw == pureCall.raw
         f == pureCall.filterTags
         tagMap == ExtractTagMap(raw)
     IN  pureRet' =
           [NoRet EXCEPT
              !.done = TRUE,
              !.tagMap = tagMap,
              !.slice = HasAllTagsSlice(raw, f),
              !.map = HasAllTagsMap(tagMap, f),
              !.sliceWithout = [i \in 1..Len(raw) |-> HasAllTagsSlice(Remove(raw, i), f)],
              !.mapWithout = [k \in DOMAIN tagMap |->
                                HasAllTagsMap(MapDelete(tagMap, k), f)]]
  /\ UNCHANGED pureCall
  /\ UNCHANGED << clientVars, runVars, onceVars, pageVars, enumVars >>

NextPure ==
  \/ CallBackoffDuration
  \/ CallNewClient
  \/ CallHasAllTags

SpecPure == InitPure /\ [][NextPure]_vars

(***************************************************************************)
(* Properties of the tag matchers, backoffDuration and newClient.          *)
(***************************************************************************)
\* Equal ignoring letter case, character by character.
EqualFold(a, b) == Len(a) = Len(b) /\ \A i \in 1..Len(a) : Lower(a[i]) = Lower(b[i])

Matched == pureRet.done /\ pureCall.fn = "HasAllTags"

\* The tag a map entry stands for.
TagOf(k) == k \o << ":" >> \o pureRet.tagMap[k]

\* The constraints a tag meets.
Meets(tag) ==
  { w \in 1..Len(pureCall.filterTags) : EqualFold(tag, pureCall.filterTags[w]) }

\* C31 as stated: HasAllTagsSlice / HasAllTagsMap return true exactly when
\* every filter tag has a tag equal to it ignoring letter case, an empty
\* filter always matches, and taking any one required tag away from a
\* matching resource makes the result false.
C31_RemovingRequiredTagFlips ==
  Matched =>
    LET raw == pureCall.raw
        f == pureCall.filterTags
        keys == DOMAIN pureRet.tagMap
    IN  /\ pureRet.slice <=> \A w \in 1..Len(f) : \E i \in 1..Len(raw) : EqualFold(raw[i], f[w])
        /\ pureRet.map <=> \A w \in 1..Len(f) : \E k \in keys : EqualFold(TagOf(k), f[w])
        /\ f = <<>> => pureRet.slice /\ pureRet.map
        /\ pureRet.slice =>
             \A i \in 1..Len(raw) : Meets(raw[i]) /= {} => ~pureRet.sliceWithout[i]
        /\ pureRet.map =>
             \A k \in keys : Meets(TagOf(k)) /= {} => ~pureRet.mapWithout[k]

\* C31: HasAllTagsSlice / HasAllTagsMap return true exactly when every filter
\* tag has a tag equal to it ignoring letter case, an empty filter always
\* matches, and taking away a tag that is the only one to meet some filter
\* tag makes the result false; a tag whose constraints are all met by
\* another tag as well can be taken away without changing the result.
C31_RemovingOnlyRequiredTagFlips ==
  Matched =>
    LET raw == pureCall.raw
        f == pureCall.filterTags
        keys == DOMAIN pureRet.tagMap
    IN  /\ pureRet.slice <=> \A w \in 1..Len(f) : \E i \in 1..Len(raw) : EqualFold(raw[i], f[w])
        /\ pureRet.map <=> \A w \in 1..Len(f) : \E k \in keys : EqualFold(TagOf(k), f[w])
        /\ f = <<>> => pureRet.slice /\ pureRet.map
        /\ pureRet.slice =>
             \A i \in 1..Len(raw) :
               ~pureRet.sliceWithout[i] <=>
                 \E w \in Meets(raw[i]) :
                   \A j \in (1..Len(raw)) \ {i} : w \notin Meets(raw[j])
        /\ pureRet.map =>
             \A k \in keys :
               ~pureRet.mapWithout[k] <=>
                 \E w \in Meets(TagOf(k)) :
                   \A l \in keys \ {k} : w \notin Meets(TagOf(l))

\* Two constraints met by two tags written in another case; either tag
\* taken away, the resource no longer matches.
C31_TwoConstraintsMatched ==
  /\ Matched
  /\ pureCall.raw = << tagTeamA, tagABUpperKey >>
  /\ pureCall.filterTags = << filterTeamA, filterAB >>
  /\ pureRet.slice
  /\ pureRet.map
  /\ ~pureRet.sliceWithout[1]
  /\ ~pureRet.sliceWithout[2]

(***************************************************************************)
(* Properties of the enumerators: team and tags, failures, the stream.     *)
(***************************************************************************)
\* The selection that asks for the team by a tag constraint instead.
TeamAsTag(o) == [o EXCEPT !.Team = <<>>, !.Tags = << teamKey \o << ":" >> \o o.Team >>]

\* C32: selecting with Team = v sends the same targets as selecting with the
\* tag filter team:v, for dashboards and for monitors: on a stream closed
\* after a listing without failure, the identifiers sent are those of the
\* resources whose tags hold team:v ignoring letter case.
C32_TeamSameAsTeamTag ==
  ( /\ ePc = "closed"
    /\ ~eListErr
    /\ eOpts.Team /= <<>>
    /\ eOpts.Tags = <<>> )
  => LET byTag == TeamAsTag(eOpts)
         sent == { r.Target.ID : r \in Range(eOut) }
     IN  IF eKind = "monitors"
         THEN sent = { r.Target.ID : r \in Range(MonitorTargets(eAll, byTag)) }
         ELSE sent = { id \in Range(eAll) \cap eDetailOK :
                         HasAllTagsSlice(DetailOf(id).tags, DashboardFilterTags(byTag)) }

(***************************************************************************)
(* Properties of the downloads and of runDownload.                         *)
(***************************************************************************)
\* The path a download writes to.
PathOf(t) == IF t.target.Path = NoPath THEN ComputedPath(t.target.ID) ELSE t.target.Path

\* C33: a download whose detail GET returned an error, a status other than
\* 200 (a 5xx handed back after the retries included) or a body that does
\* not decode ends with an error for its target that goes to errCh, and
\* writes no file: the files written are those of the other downloads.
C33_FailedFetchWritesNothing ==
  /\ \A k \in 1..Len(tasks) :
       LET t == tasks[k]
       IN  ( /\ t.resp /= NoResponse
             /\ (t.resp.err \/ t.resp.status /= StatusOK \/ t.resp.body = "malformed") )
           => /\ ~t.written
              /\ t.pc \in { "sendErr", "failed" }
              /\ t.pc = "failed" => t.item \in Range(errCh) \cup Range(reported)
  /\ files = { PathOf(tasks[k]) : k \in { j \in 1..Len(tasks) : tasks[j].written } }

\* A download that got a 500 after the retries has failed and written
\* nothing, while its sibling has written its file.
C33_ServerErrorNotWritten ==
  /\ Len(tasks) = 2
  /\ \E k \in 1..2 : /\ tasks[k].resp.status = StatusInternalServerError
                     /\ tasks[k].resp.body = "json"
                     /\ tasks[k].pc = "failed"
  /\ \E k \in 1..2 : tasks[k].written /\ tasks[k].fetched
  /\ Cardinality(files) = 1

(***************************************************************************)
(* Properties of backoffDuration and newClient.                            *)
(***************************************************************************)
Min(a, b) == IF a < b THEN a ELSE b

BackedOff == pureRet.done /\ pureCall.fn = "backoffDuration"

\* C34: backoffDuration(attempt) is min(500ms * 2^attempt, 5s) for every
\* attempt >= 0, that is 500ms, 1s, 2s, 4s and then 5s for ever, and it is
\* non-decreasing in attempt.
C34_BackoffIsCappedDoubling ==
  BackedOff =>
    LET a == pureCall.attempt
    IN  /\ pureRet.d = Min(BackoffBase * 2^a, BackoffCap)
        /\ pureRet.d = CASE a = 0 -> BackoffBase
                         [] a = 1 -> Second
                         [] a = 2 -> 2 * Second
                         [] a = 3 -> 4 * Second
                         [] OTHER -> 5 * Second
        /\ pureRet.d <= backoffDuration(a + 1)

\* The first attempt for which the doubling is cut at the cap.
C34_FirstCapped ==
  /\ BackedOff
  /\ pureCall.attempt = 4
  /\ pureRet.d = BackoffCap
  /\ BackoffBase * 2^pureCall.attempt > BackoffCap

Built == pureRet.done /\ pureCall.fn = "newClient"

\* C35: newClient replaces a concurrency cap, a retry budget or a timeout
\* that is not positive by the defaults 8, 3 and 60s and keeps every
\* positive value; so a client built with retry budget 0 is the client built
\* with retry budget 3, and the capacity of the semaphore is at least 1.
C35_DefaultsForNonPositive ==
  Built =>
    LET m == pureCall.maxConcurrent
        r == pureCall.retries
        t == pureCall.timeout
        c == pureRet.c
    IN  /\ defaultMaxConcurrency = 8
        /\ defaultRetries = 3
        /\ defaultHTTPTimeout = 60 * Second
        /\ c.semCap = IF m > 0 THEN m ELSE 8
        /\ c.retries = IF r > 0 THEN r ELSE 3
        /\ c.timeout = IF t > 0 THEN t ELSE 60 * Second
        /\ c.semCap >= 1
        /\ c.retries >= 1
        /\ r = 0 => c = newClient(m, 3, t)

\* Nothing positive is handed over: the client is the default one.
C35_AllDefaults ==
  /\ Built
  /\ pureCall.maxConcurrent = -1
  /\ pureCall.retries = 0
  /\ pureCall.timeout = 0
  /\ pureRet.c = [ semCap |-> 8, retries |-> 3, timeout |-> 60 * Second ]

\* runDownload with a scheduler that lets every goroutine that can take a
\* step take one in the end.  Every step moves one of the positions or
\* counters of Progress.
Progress ==
  << pcMain, pcProd, pcCloser, nItems, Len(todo), Len(errCh), Len(reported),
     [k \in 1..Len(tasks) |-> tasks[k].pc] >>

SpecRunLive == InitRun /\ [][NextRun]_vars /\ WF_Progress(NextRun)

\* C36: runDownload terminates for every finite stream of results, whatever
\* the number of enumeration errors and failed downloads, more than the
\* capacity of errCh included: every download goroutine ends, errCh is
\* closed and runDownload returns.
C36_RunDownloadReturns ==
  <>( /\ pcMain = "returned"
      /\ \A k \in 1..Len(tasks) : tasks[k].pc \in { "done", "failed" }
      /\ runErr /= "start" => errClosed /\ errCh = <<>> )

\* Item numbers of the downloads that have sent their error.
SentByTasks == { tasks[k].item : k \in { j \in 1..Len(tasks) : tasks[j].pc = "failed" } }

\* How often n stands in q.
Count(q, n) == Cardinality({ i \in 1..Len(q) : q[i] = n })

\* C37: errCh is closed only after every download goroutine spawned has
\* ended (and none is spawned afterwards), so no goroutine sends on the
\* closed channel; and when runDownload returns, every error a download has
\* sent and every enumeration error has been received and printed exactly
\* once, and nothing else has.
C37_ClosedAfterTasksAllReported ==
  /\ errClosed =>
       /\ \A k \in 1..Len(tasks) : tasks[k].pc \in { "done", "failed" }
       /\ wg = 0
       /\ pcProd = "closed"
       /\ pcMain \in { "collect", "returned" }
  /\ \A k \in 1..Len(tasks) : tasks[k].pc /= "panic"
  /\ (pcMain = "returned" /\ runErr /= "start") =>
       /\ errClosed
       /\ errCh = <<>>
       /\ \A n \in enumErrs \cup SentByTasks : Count(reported, n) = 1
       /\ Len(reported) = Cardinality(enumErrs \cup SentByTasks)

\* runDownload has returned after an enumeration error and the errors of
\* two failed downloads, all three printed.
C37_ThreeErrorsReported ==
  /\ pcMain = "returned"
  /\ Cardinality(enumErrs) = 1
  /\ Cardinality(SentByTasks) = 2
  /\ Len(reported) = 3

\* C38: once a request of a listing page has failed (client error, status
\* other than 200 or undecodable body) the enumerator has left the loop
\* (it makes no detail request either), sends exactly one result, which
\* carries the error and no target, whatever earlier pages have brought,
\* and closes the stream.
C38_ListingFailureIsOneError ==
  eListErr =>
       /\ ePc \in { "send", "closed" }
       /\ eOut \o eTodo = << ErrResult(eKind, "failed to fetch") >>
       /\ ePc = "closed" => eOut = << ErrResult(eKind, "failed to fetch") >>
       /\ eGets.detail = 0

\* The second page has failed after a first page was collected: the stream
\* is closed with the error alone.
C38_FailedAfterFirstPage ==
  /\ eListErr
  /\ ePc = "closed"
  /\ eAll /= <<>>
  /\ eGets.list = 2
  /\ Len(eOut) = 1
  /\ eOut[1].Err /= "nil"

\* An enumerator whose consumer keeps receiving and whose requests all
\* return: every step that can be taken is taken in the end.  Every step
\* moves one of the positions or counters of EnumProgress.
EnumProgress == << ePc, eGets, Len(eOut), eCloses >>

SpecEnumLive == InitEnum /\ [][NextEnum]_vars /\ WF_EnumProgress(NextEnum)

\* The goroutine has closed the channel and is gone, or was never started.
EnumEnded ==
  \/ /\ ePc = "closed"
     /\ eTodo = <<>>
     /\ eCloses = 1
  \/ /\ ePc = "failed"
     /\ eOut = <<>>
     /\ eGets = [ list |-> 0, detail |-> 0 ]
     /\ eCloses = 1

C40_MatchersAgree ==
  Matched => pureRet.map = pureRet.slice

====
